---- MODULE Spec2Model ----
\* Request handling of the four runnable app factories of approutes.py
\* (Flask, FastAPI, Starlette, Tornado).
\*
\* A text (a Python str) is a sequence of one-character strings, so that
\* int(), str.lower(), startswith(), slicing and substring containment are
\* computed character by character.  An optional value (a query parameter or
\* a header that may be absent) is <<>> when absent and <<v>> when present.
\*
\* inbox  : the requests the client has sent and the app has not yet handled
\* outbox : one entry [req, resp] per handled request, in the order handled
\* sockets     : per websocket connection, its state and the messages the
\*               server has written to it
\* connections : AdvancedWebSocket.connections, Tornado's registry
\* last        : the last frame a websocket handler was given, numbered
\* work  : per Tornado request in flight, where it stands and how many
\*         blocking operations it still has to await
\* queue : the work queue of BaseHandler.executor
\*
\* Timestamps, request ids and query times of the responses are left out of
\* the response records; the clock only appears where it becomes an id
\* (int(time.time()) of a created user), as the request's field `now`.
EXTENDS Integers, Sequences, FiniteSets, TLC

VARIABLES inbox, outbox, sockets, connections, last, work, queue

httpvars == <<inbox, outbox>>

wsvars == <<sockets, connections, last>>

poolvars == <<work, queue>>

vars == <<inbox, outbox, sockets, connections, last, work, queue>>

\* ------------------------------------------------------------------ bounds

\* Longest request sequence of the multi-request specification.
MaxRequests == 3

\* The most fields a multipart form carries.
MaxFields == 2

\* The websocket connections of one run.
MaxConns == 3

\* The frames the clients send in one run, disconnects included.
MaxFrames == 2

\* The Tornado requests in flight at once.
MaxInFlight == 5

\* ------------------------------------------------------- Python primitives

Absent == <<>>

Some(v) == <<v>>

\* d.get(key, default) on an optional value.
Get(opt, default) == IF opt = Absent THEN default ELSE opt[1]

Min(a, b) == IF a < b THEN a ELSE b

Max(a, b) == IF a > b THEN a ELSE b

DIGITS == <<"0", "1", "2", "3", "4", "5", "6", "7", "8", "9">>

UPPER == <<"A", "B", "C", "D", "E", "F", "G", "H", "I", "J", "K", "L", "M",
           "N", "O", "P", "Q", "R", "S", "T", "U", "V", "W", "X", "Y", "Z">>

LOWER == <<"a", "b", "c", "d", "e", "f", "g", "h", "i", "j", "k", "l", "m",
           "n", "o", "p", "q", "r", "s", "t", "u", "v", "w", "x", "y", "z">>

IsDigit(c) == \E i \in 1..10 : DIGITS[i] = c

DigitVal(c) == (CHOOSE i \in 1..10 : DIGITS[i] = c) - 1

\* str.lower() on one character and on a text.
LowerChar(c) ==
    IF \E i \in 1..26 : UPPER[i] = c
    THEN LOWER[CHOOSE i \in 1..26 : UPPER[i] = c]
    ELSE c

PyLower(t) == [k \in 1..Len(t) |-> LowerChar(t[k])]

\* str(n) for n >= 0, and f"{n}" for any integer.
RECURSIVE StrNat(_)
StrNat(n) ==
    IF n < 10 THEN <<DIGITS[n + 1]>>
    ELSE StrNat(n \div 10) \o <<DIGITS[(n % 10) + 1]>>

PyStr(n) == IF n < 0 THEN <<"-">> \o StrNat(0 - n) ELSE StrNat(n)

\* f"{n:03d}" for n >= 0.
Pad3(n) ==
    IF n < 10 THEN <<"0", "0">> \o StrNat(n)
    ELSE IF n < 100 THEN <<"0">> \o StrNat(n)
    ELSE StrNat(n)

\* The value of a text of digits.
RECURSIVE DigitsVal(_)
DigitsVal(t) ==
    IF Len(t) = 0 THEN 0
    ELSE 10 * DigitsVal(SubSeq(t, 1, Len(t) - 1)) + DigitVal(t[Len(t)])

AllDigits(t) == Len(t) > 0 /\ \A k \in 1..Len(t) : IsDigit(t[k])

\* int(text): an optional sign followed by digits; anything else raises
\* ValueError (ok = FALSE).
PyInt(t) ==
    IF AllDigits(t) THEN [ok |-> TRUE, val |-> DigitsVal(t)]
    ELSE IF Len(t) > 1 /\ t[1] \in {"-", "+"} /\ AllDigits(Tail(t))
    THEN [ok |-> TRUE,
          val |-> IF t[1] = "-" THEN 0 - DigitsVal(Tail(t)) ELSE DigitsVal(Tail(t))]
    ELSE [ok |-> FALSE, val |-> 0]

\* text.startswith(prefix)
StartsWith(t, prefix) ==
    Len(t) >= Len(prefix) /\ SubSeq(t, 1, Len(prefix)) = prefix

\* text[n:]
DropPrefix(t, n) == IF n >= Len(t) THEN <<>> ELSE SubSeq(t, n + 1, Len(t))

\* needle in hay
Contains(needle, hay) ==
    \E k \in 0..(Len(hay) - Len(needle)) :
        SubSeq(hay, k + 1, k + Len(needle)) = needle

\* A slice index as list[start:end] normalises it: a negative index counts
\* from the end, and the result is clamped to 0..len.
SliceIndex(i, len) ==
    IF i < 0 THEN Max(i + len, 0) ELSE Min(i, len)

\* seq[start:end]
PySlice(seq, start, end) ==
    LET s == SliceIndex(start, Len(seq))
        e == SliceIndex(end, Len(seq))
    IN  IF s < e THEN SubSeq(seq, s + 1, e) ELSE <<>>

\* The elements seq[lo..hi] whose flag is set, in order (by halves, to keep
\* the recursion shallow).
RECURSIVE Select(_, _, _, _)
Select(seq, flags, lo, hi) ==
    IF lo > hi THEN <<>>
    ELSE IF lo = hi THEN (IF flags[lo] THEN <<seq[lo]>> ELSE <<>>)
    ELSE LET mid == (lo + hi) \div 2
         IN  Select(seq, flags, lo, mid) \o Select(seq, flags, mid + 1, hi)

\* [x for x in seq if keep(x)]
Filter(seq, keep(_)) ==
    Select(seq, [i \in 1..Len(seq) |-> keep(seq[i])], 1, Len(seq))

\* ------------------------------------------------------------ text literals

USER_ == <<"u", "s", "e", "r", "_">>

User_ == <<"U", "s", "e", "r", "_">>

AT_EXAMPLE_COM == <<"@", "e", "x", "a", "m", "p", "l", "e", ".", "c", "o", "m">>

TRUE_TEXT == <<"t", "r", "u", "e">>

FALSE_TEXT == <<"f", "a", "l", "s", "e">>

\* ----------------------------------------------------------------- replies

\* The handler at the head of the inbox answers: the request leaves the
\* inbox and its response is appended to the outbox.
Respond(r, resp) ==
    /\ outbox' = Append(outbox, [req |-> r, resp |-> resp])
    /\ inbox' = Tail(inbox)
    /\ UNCHANGED <<wsvars, poolvars>>

Routed(app, route) ==
    /\ inbox # <<>>
    /\ Head(inbox).app = app
    /\ Head(inbox).route = route

\* ------------------------------------------------------------- users lists

FLASK_USERS == 100

STARLETTE_USERS == 50

TORNADO_USERS == 100

\* A limit check that turns the limit 100 away.
LIMIT_BELOW_100 == 100 - 1

MAX_LIMIT == 100

\* request.args.get(name, default, type=int): a value int() rejects gives
\* the default.
FlaskIntArg(opt, default) ==
    IF opt = Absent THEN default
    ELSE IF PyInt(opt[1]).ok THEN PyInt(opt[1]).val ELSE default

flask_all_users == [i \in 1..FLASK_USERS |-> User_ \o PyStr(i)]

\* Flask GET /users
flask_get_users(r) ==
    LET page == FlaskIntArg(r.args.page, 1)
        limit == FlaskIntArg(r.args.limit, 10)
        all_users == flask_all_users
        start == (page - 1) * limit
        end == start + limit
    IN  [status |-> 200,
         users |-> PySlice(all_users, start, end),
         page |-> page,
         limit |-> limit,
         total |-> Len(all_users),
         has_next |-> end < Len(all_users)]

FlaskGetUsers ==
    /\ Routed("flask", "users")
    /\ Respond(Head(inbox), flask_get_users(Head(inbox)))

\* int(request.query_params.get(name, default)); the default is an int.
IntArg(opt, default) ==
    IF opt = Absent THEN [ok |-> TRUE, val |-> default] ELSE PyInt(opt[1])

starlette_all_users ==
    [i \in 1..STARLETTE_USERS |->
        [id |-> i,
         username |-> USER_ \o PyStr(i),
         email |-> USER_ \o PyStr(i) \o AT_EXAMPLE_COM,
         active |-> i % 3 # 0]]

\* users_list: all_users after the optional search filter.
starlette_filter_users(search) ==
    LET Match(u) == Contains(PyLower(search), PyLower(u.username))
    IN  IF search # <<>> THEN Filter(starlette_all_users, Match)
        ELSE starlette_all_users

\* Starlette GET /api/v1/users.  A ValueError of int() is not caught: the
\* app's 500 handler answers.
starlette_users_list(r) ==
    LET p == IntArg(r.args.page, 1)
        l == IntArg(r.args.limit, 10)
        search == Get(r.args.search, <<>>)
        page == p.val
        limit == l.val
        all_users == starlette_filter_users(search)
        start == (page - 1) * limit
        end == start + limit
    IN  IF ~p.ok \/ ~l.ok THEN [status |-> 500, error |-> "Internal server error"]
        ELSE IF page < 1 THEN [status |-> 400, error |-> "Page must be >= 1"]
        ELSE IF limit < 1 \/ limit > MAX_LIMIT
        THEN [status |-> 400, error |-> "Limit must be between 1-100"]
        ELSE [status |-> 200,
              users |-> PySlice(all_users, start, end),
              page |-> page,
              limit |-> limit,
              total |-> Len(all_users),
              has_next |-> end < Len(all_users),
              has_previous |-> page > 1,
              search |-> search]

StarletteUsersList ==
    /\ Routed("starlette", "users")
    /\ Respond(Head(inbox), starlette_users_list(Head(inbox)))

tornado_all_users ==
    [i \in 1..TORNADO_USERS |->
        [id |-> i,
         username |-> USER_ \o Pad3(i),
         email |-> USER_ \o Pad3(i) \o AT_EXAMPLE_COM,
         active |-> i % 4 # 0]]

\* A filter that ignores active_only.
filter_users_by_search(search, active_only) ==
    LET Match(u) == \/ Contains(PyLower(search), PyLower(u.username))
                    \/ Contains(PyLower(search), PyLower(u.email))
    IN  IF search # <<>> THEN Filter(tornado_all_users, Match) ELSE tornado_all_users

\* get_users_from_database: all_users after the active and search filters.
tornado_filter_users(search, active_only) ==
    LET Active(u) == u.active
        Match(u) == \/ Contains(PyLower(search), PyLower(u.username))
                    \/ Contains(PyLower(search), PyLower(u.email))
        active_users == IF active_only THEN Filter(tornado_all_users, Active)
                        ELSE tornado_all_users
    IN  IF search # <<>> THEN Filter(active_users, Match) ELSE active_users

\* UsersHandler.get_users_from_database
get_users_from_database(page, limit, search, active_only) ==
    LET filtered_users == tornado_filter_users(search, active_only)
        start == (page - 1) * limit
        end == start + limit
    IN  [users |-> PySlice(filtered_users, start, end),
         page |-> page,
         limit |-> limit,
         total |-> Len(filtered_users),
         has_next |-> end < Len(filtered_users),
         has_previous |-> page > 1]

\* Tornado GET /users (UsersHandler.get)
tornado_users_get(r) ==
    LET p == IntArg(r.args.page, 1)
        l == IntArg(r.args.limit, 10)
        search == Get(r.args.search, <<>>)
        active_only == PyLower(Get(r.args.active_only, FALSE_TEXT)) = TRUE_TEXT
        page == p.val
        limit == l.val
        users_data == get_users_from_database(page, limit, search, active_only)
    IN  IF ~p.ok \/ ~l.ok
        THEN [status |-> 400, error |-> "Invalid parameter format"]
        ELSE IF page < 1 THEN [status |-> 400, error |-> "Page must be >= 1"]
        ELSE IF limit < 1 \/ limit > MAX_LIMIT
        THEN [status |-> 400, error |-> "Limit must be between 1-100"]
        ELSE [status |-> 200,
              users |-> users_data.users,
              page |-> users_data.page,
              limit |-> users_data.limit,
              total |-> users_data.total,
              has_next |-> users_data.has_next,
              has_previous |-> users_data.has_previous,
              search |-> search,
              active_only |-> active_only]

TornadoUsersGet ==
    /\ Routed("tornado", "users")
    /\ Respond(Head(inbox), tornado_users_get(Head(inbox)))

\* ----------------------------------------------------------------- search

FLASK_TOTAL == 25

FASTAPI_TOTAL == 47

STARLETTE_TOTAL == 42

TORNADO_TOTAL == 150

TORNADO_SEARCH_LIMIT == 20

\* list(range(a, b))
\* A range that includes its end.
RangeThrough(a, b) == [k \in 1..Max(b - a + 1, 0) |-> a + k - 1]

PyRange(a, b) == [k \in 1..(b - a) |-> a + k - 1]

\* category if category != "all" else names[i % 3]
ResultCategory(category, names, i) ==
    IF category # "all" THEN category ELSE names[(i % 3) + 1]

\* Flask GET /search
flask_search(r) ==
    LET query == Get(r.args.q, <<>>)
        category == Get(r.args.category, "all")
        page == FlaskIntArg(r.args.page, 1)
        given == FlaskIntArg(r.args.limit, 10)
        limit == IF given > MAX_LIMIT THEN MAX_LIMIT ELSE given
        ids == PyRange((page - 1) * limit + 1, Min(page * limit + 1, FLASK_TOTAL + 1))
    IN  IF query = <<>>
        THEN [status |-> 400, error |-> "Search query 'q' is required"]
        ELSE [status |-> 200,
              query |-> query,
              category |-> category,
              page |-> page,
              limit |-> limit,
              results |-> [k \in DOMAIN ids |-> [id |-> ids[k], category |-> category]],
              total |-> FLASK_TOTAL,
              has_next |-> page * limit < FLASK_TOTAL]

FlaskSearch ==
    /\ Routed("flask", "search")
    /\ Respond(Head(inbox), flask_search(Head(inbox)))

\* Query(default, ge=lo) of an int parameter: the value, or a validation
\* error (ok = FALSE) that FastAPI answers with 422.
QueryGe(opt, default, lo) ==
    LET v == IntArg(opt, default)
    IN  [ok |-> v.ok /\ v.val >= lo, val |-> v.val]

\* Query(default, ge=lo, le=hi)
QueryGeLe(opt, default, lo, hi) ==
    LET v == QueryGe(opt, default, lo)
    IN  [ok |-> v.ok /\ v.val <= hi, val |-> v.val]

\* FastAPI GET /search
fastapi_search(r) ==
    LET q == r.args.q
        category == Get(r.args.category, "all")
        p == QueryGe(r.args.page, 1, 1)
        l == QueryGeLe(r.args.limit, 10, 1, MAX_LIMIT)
        page == p.val
        limit == l.val
        total_results == FASTAPI_TOTAL
        ids == PyRange((page - 1) * limit + 1, Min(page * limit + 1, total_results + 1))
    IN  IF q = Absent \/ Len(Get(q, <<>>)) < 1 \/ ~p.ok \/ ~l.ok
        THEN [status |-> 422, error |-> "validation error"]
        ELSE IF category \notin {"all", "users", "posts", "products"}
        THEN [status |-> 400, error |-> "Invalid category"]
        ELSE [status |-> 200,
              query |-> q[1],
              results |-> [k \in DOMAIN ids |->
                  [id |-> ids[k],
                   category |-> ResultCategory(category,
                                               <<"users", "posts", "products">>, ids[k])]],
              total |-> total_results,
              page |-> page,
              limit |-> limit,
              has_next |-> page * limit < total_results]

FastapiSearch ==
    /\ Routed("fastapi", "search")
    /\ Respond(Head(inbox), fastapi_search(Head(inbox)))

\* Starlette GET /search.  page and limit are converted before q is looked
\* at; a ValueError of int() reaches the app's 500 handler.
starlette_search_handler(r) ==
    LET query == Get(r.args.q, <<>>)
        category == Get(r.args.category, "all")
        p == IntArg(r.args.page, 1)
        l == IntArg(r.args.limit, 10)
        page == p.val
        limit == l.val
        total_results == STARLETTE_TOTAL
        ids == PyRange((page - 1) * limit + 1, Min(page * limit + 1, total_results + 1))
    IN  IF ~p.ok \/ ~l.ok THEN [status |-> 500, error |-> "Internal server error"]
        ELSE IF query = <<>>
        THEN [status |-> 400, error |-> "Search query 'q' is required"]
        ELSE IF category \notin {"all", "users", "posts", "files"}
        THEN [status |-> 400, error |-> "Invalid category"]
        ELSE [status |-> 200,
              query |-> query,
              category |-> category,
              results |-> [k \in DOMAIN ids |->
                  [id |-> ids[k],
                   category |-> ResultCategory(category,
                                               <<"users", "posts", "files">>, ids[k])]],
              page |-> page,
              limit |-> limit,
              total |-> total_results,
              has_next |-> page * limit < total_results]

StarletteSearch ==
    /\ Routed("starlette", "search")
    /\ Respond(Head(inbox), starlette_search_handler(Head(inbox)))

\* SearchHandler.perform_search
perform_search(query, search_type, page, limit) ==
    LET ids == PyRange((page - 1) * limit + 1, page * limit + 1)
    IN  [query |-> query,
         search_type |-> search_type,
         results |-> [k \in DOMAIN ids |->
             [id |-> ids[k],
              category |-> ResultCategory(search_type,
                                          <<"users", "posts", "files">>, ids[k])]],
         page |-> page,
         limit |-> limit,
         total_results |-> TORNADO_TOTAL]

\* Tornado GET /search (SearchHandler.get).  q is checked first; a
\* ValueError of int() is not caught and Tornado answers 500.
tornado_search_get(r) ==
    LET query == Get(r.args.q, <<>>)
        search_type == Get(r.args.category, "all")
        p == IntArg(r.args.page, 1)
        l == IntArg(r.args.limit, TORNADO_SEARCH_LIMIT)
        found == perform_search(query, search_type, p.val, l.val)
    IN  IF query = <<>>
        THEN [status |-> 400, error |-> "Search query 'q' is required"]
        ELSE IF ~p.ok \/ ~l.ok THEN [status |-> 500, error |-> "Internal Server Error"]
        ELSE [status |-> 200,
              query |-> found.query,
              search_type |-> found.search_type,
              results |-> found.results,
              page |-> found.page,
              limit |-> found.limit,
              total |-> found.total_results]

TornadoSearch ==
    /\ Routed("tornado", "search")
    /\ Respond(Head(inbox), tornado_search_get(Head(inbox)))

\* ---------------------------------------------------------- authentication

BEARER == <<"B", "e", "a", "r", "e", "r", " ">>

VALID_TOKEN == <<"v", "a", "l", "i", "d", "-", "t", "o", "k", "e", "n">>

ADMIN_TOKEN == <<"a", "d", "m", "i", "n", "-", "t", "o", "k", "e", "n">>

USER_TOKEN == <<"u", "s", "e", "r", "-", "t", "o", "k", "e", "n">>

\* Flask require_auth, up to the call of the wrapped view: the 401 it
\* answers, or request.current_user.
flask_require_auth(auth) ==
    LET auth_header == Get(auth, <<>>)
        token == DropPrefix(auth_header, 7)
    IN  IF ~StartsWith(auth_header, BEARER)
        THEN [ok |-> FALSE, status |-> 401, error |-> "Authentication required"]
        ELSE IF token \notin {VALID_TOKEN, ADMIN_TOKEN, USER_TOKEN}
        THEN [ok |-> FALSE, status |-> 401, error |-> "Invalid token"]
        ELSE [ok |-> TRUE,
              user |-> [token |-> token,
                        username |-> IF token = ADMIN_TOKEN THEN "admin" ELSE "user",
                        is_admin |-> token = ADMIN_TOKEN]]

\* Flask require_admin, up to the call of the wrapped view.
flask_require_admin(auth) ==
    LET auth_header == Get(auth, <<>>)
        token == DropPrefix(auth_header, 7)
    IN  IF ~StartsWith(auth_header, BEARER)
        THEN [ok |-> FALSE, status |-> 401, error |-> "Authentication required"]
        ELSE IF token # ADMIN_TOKEN
        THEN [ok |-> FALSE, status |-> 403, error |-> "Admin access required"]
        ELSE [ok |-> TRUE]

\* Flask GET /api/v1/protected
flask_protected_resource(r) ==
    LET a == flask_require_auth(r.auth)
    IN  IF ~a.ok THEN [status |-> a.status, error |-> a.error]
        ELSE [status |-> 200, body |-> "protected",
              user |-> a.user.username, is_admin |-> a.user.is_admin]

FlaskProtected ==
    /\ Routed("flask", "protected")
    /\ Respond(Head(inbox), flask_protected_resource(Head(inbox)))

\* Flask POST /api/v1/data
flask_handle_data(r) ==
    LET a == flask_require_auth(r.auth)
    IN  IF ~a.ok THEN [status |-> a.status, error |-> a.error]
        ELSE IF ~r.is_json
        THEN [status |-> 400, error |-> "JSON content type required"]
        ELSE [status |-> 201, body |-> "data", user |-> a.user.username]

FlaskHandleData ==
    /\ Routed("flask", "data")
    /\ Respond(Head(inbox), flask_handle_data(Head(inbox)))

\* Flask GET /admin/stats
flask_admin_stats(r) ==
    LET a == flask_require_admin(r.auth)
    IN  IF ~a.ok THEN [status |-> a.status, error |-> a.error]
        ELSE [status |-> 200, body |-> "stats",
              stats |-> [total_users |-> 150, active_users |-> 89,
                         total_posts |-> 456, active_sessions |-> 25]]

FlaskAdminStats ==
    /\ Routed("flask", "admin")
    /\ Respond(Head(inbox), flask_admin_stats(Head(inbox)))

\* A backend that authenticates every bearer token as the guest: what
\* TokenAuthBackend.authenticate would be without its token table.
authenticate_any_token(auth) ==
    IF auth = Absent \/ ~StartsWith(auth[1], BEARER) THEN <<>>
    ELSE <<[username |-> "guest", scopes |-> {"authenticated"}]>>

\* TokenAuthBackend.authenticate: <<>> for None, else the scopes and the
\* user name.
starlette_authenticate(auth) ==
    LET token == DropPrefix(Get(auth, <<>>), 7)
    IN  IF auth = Absent \/ ~StartsWith(auth[1], BEARER) THEN <<>>
        ELSE IF token = ADMIN_TOKEN
        THEN <<[username |-> "admin", scopes |-> {"authenticated", "admin"}]>>
        ELSE IF token = USER_TOKEN
        THEN <<[username |-> "user", scopes |-> {"authenticated"}]>>
        ELSE IF token = VALID_TOKEN
        THEN <<[username |-> "guest", scopes |-> {"authenticated"}]>>
        ELSE <<>>

\* Starlette GET /protected
starlette_protected_endpoint(r) ==
    LET user == starlette_authenticate(r.auth)
    IN  IF user = <<>> THEN [status |-> 401, error |-> "Authentication required"]
        ELSE [status |-> 200, body |-> "protected",
              user |-> user[1].username, permissions |-> user[1].scopes]

StarletteProtected ==
    /\ Routed("starlette", "protected")
    /\ Respond(Head(inbox), starlette_protected_endpoint(Head(inbox)))

\* Starlette GET /admin
starlette_admin_endpoint(r) ==
    LET user == starlette_authenticate(r.auth)
    IN  IF user = <<>> THEN [status |-> 401, error |-> "Authentication required"]
        ELSE IF "admin" \notin user[1].scopes
        THEN [status |-> 403, error |-> "Admin access required"]
        ELSE [status |-> 200, body |-> "stats", admin |-> user[1].username,
              stats |-> [total_users |-> 1247, active_sessions |-> 89]]

StarletteAdmin ==
    /\ Routed("starlette", "admin")
    /\ Respond(Head(inbox), starlette_admin_endpoint(Head(inbox)))

\* BaseHandler.get_current_user: <<>> for None, else the user.
\* A get_current_user for which every bearer of a token is the admin.
get_current_user_all_admin(auth) ==
    IF StartsWith(Get(auth, <<>>), BEARER)
    THEN <<[id |-> 2, username |-> "admin", is_admin |-> TRUE,
            permissions |-> {"read", "write", "admin", "delete"}]>>
    ELSE <<>>

tornado_get_current_user(auth) ==
    LET auth_header == Get(auth, <<>>)
        token == DropPrefix(auth_header, 7)
    IN  IF ~StartsWith(auth_header, BEARER) THEN <<>>
        ELSE IF token = VALID_TOKEN
        THEN <<[id |-> 1, username |-> "user", is_admin |-> FALSE,
                permissions |-> {"read", "write"}]>>
        ELSE IF token = ADMIN_TOKEN
        THEN <<[id |-> 2, username |-> "admin", is_admin |-> TRUE,
                permissions |-> {"read", "write", "admin", "delete"}]>>
        ELSE <<>>

\* An authenticated_async that lets a request without a user through, as
\* a user without an id.
authenticated_or_anonymous(auth) ==
    LET user == tornado_get_current_user(auth)
    IN  IF user = <<>>
        THEN [ok |-> TRUE,
              user |-> [id |-> 0, username |-> "anonymous", is_admin |-> FALSE,
                        permissions |-> {}]]
        ELSE [ok |-> TRUE, user |-> user[1]]

\* authenticated_async, up to the call of the wrapped method.
authenticated_async(auth) ==
    LET user == tornado_get_current_user(auth)
    IN  IF user = <<>>
        THEN [ok |-> FALSE, status |-> 401, error |-> "Authentication required"]
        ELSE [ok |-> TRUE, user |-> user[1]]

\* A require_admin that lets every authenticated user through.
require_admin_any_user(auth) == authenticated_async(auth)

\* Tornado require_admin, up to the call of the wrapped method.
tornado_require_admin(auth) ==
    LET user == tornado_get_current_user(auth)
    IN  IF user = <<>> \/ ~user[1].is_admin
        THEN [ok |-> FALSE, status |-> 403, error |-> "Admin access required"]
        ELSE [ok |-> TRUE, user |-> user[1]]

\* Tornado GET /protected (ProtectedHandler.get)
tornado_protected_get(r) ==
    LET a == authenticated_async(r.auth)
    IN  IF ~a.ok THEN [status |-> a.status, error |-> a.error]
        ELSE [status |-> 200, body |-> "protected",
              user |-> a.user.username, permissions |-> a.user.permissions]

TornadoProtected ==
    /\ Routed("tornado", "protected")
    /\ Respond(Head(inbox), tornado_protected_get(Head(inbox)))

\* Tornado GET /admin (AdminHandler.get)
tornado_admin_get(r) ==
    LET a == tornado_require_admin(r.auth)
    IN  IF ~a.ok THEN [status |-> a.status, error |-> a.error]
        ELSE [status |-> 200, body |-> "stats", accessed_by |-> a.user.username,
              stats |-> [total_users |-> 1247, active_users |-> 934,
                         total_posts |-> 3456, active_sessions |-> 89]]

TornadoAdmin ==
    /\ Routed("tornado", "admin")
    /\ Respond(Head(inbox), tornado_admin_get(Head(inbox)))

\* The status HTTPBearer answers a request without bearer credentials: 403
\* or 401, depending on the FastAPI release.
NOT_AUTHENTICATED == {401, 403}

\* FastAPI get_current_user behind security = HTTPBearer(): the error
\* raised, or the user of the token.  unauth is HTTPBearer's status.
fastapi_get_current_user(auth, unauth) ==
    LET header == Get(auth, <<>>)
        token == DropPrefix(header, 7)
    IN  IF ~StartsWith(header, BEARER) \/ token = <<>>
        THEN [ok |-> FALSE, status |-> unauth, error |-> "Not authenticated"]
        ELSE IF token = VALID_TOKEN
        THEN [ok |-> TRUE,
              user |-> [id |-> 1, username |-> "johndoe", is_admin |-> FALSE]]
        ELSE IF token = ADMIN_TOKEN
        THEN [ok |-> TRUE,
              user |-> [id |-> 2, username |-> "admin", is_admin |-> TRUE]]
        ELSE IF token = USER_TOKEN
        THEN [ok |-> TRUE,
              user |-> [id |-> 3, username |-> "alice", is_admin |-> FALSE]]
        ELSE [ok |-> FALSE, status |-> 401,
              error |-> "Invalid authentication credentials"]

\* A get_admin_user that asks for no privilege.
get_admin_user_unchecked(auth, unauth) == fastapi_get_current_user(auth, unauth)

\* FastAPI get_admin_user
fastapi_get_admin_user(auth, unauth) ==
    LET a == fastapi_get_current_user(auth, unauth)
    IN  IF ~a.ok THEN a
        ELSE IF ~a.user.is_admin
        THEN [ok |-> FALSE, status |-> 403, error |-> "Admin access required"]
        ELSE a

\* FastAPI GET /admin/stats (the router depends on get_admin_user)
fastapi_get_admin_stats(r, unauth) ==
    LET a == fastapi_get_admin_user(r.auth, unauth)
    IN  IF ~a.ok THEN [status |-> a.status, error |-> a.error]
        ELSE [status |-> 200, body |-> "stats",
              stats |-> [total_users |-> 1247, active_users |-> 934,
                         total_posts |-> 5623, active_sessions |-> 156]]

FastapiAdminStats ==
    /\ Routed("fastapi", "admin")
    /\ \E unauth \in NOT_AUTHENTICATED :
           Respond(Head(inbox), fastapi_get_admin_stats(Head(inbox), unauth))

\* FastAPI GET /admin/users/{user_id}/details
fastapi_get_detailed_user_info(r, unauth) ==
    LET a == fastapi_get_admin_user(r.auth, unauth)
        id == PyInt(r.path_id)
    IN  IF ~a.ok THEN [status |-> a.status, error |-> a.error]
        ELSE IF ~id.ok THEN [status |-> 422, error |-> "validation error"]
        ELSE [status |-> 200, body |-> "details", user_id |-> id.val,
              username |-> USER_ \o PyStr(id.val)]

FastapiAdminUserDetails ==
    /\ Routed("fastapi", "admin_user_details")
    /\ \E unauth \in NOT_AUTHENTICATED :
           Respond(Head(inbox), fastapi_get_detailed_user_info(Head(inbox), unauth))

\* FastAPI POST /posts; PostCreate wants a title and a content of at least
\* ten characters.
fastapi_create_post(r, unauth) ==
    LET a == fastapi_get_current_user(r.auth, unauth)
    IN  IF ~a.ok THEN [status |-> a.status, error |-> a.error]
        ELSE IF Len(r.post.title) < 1 \/ Len(r.post.content) < 10
        THEN [status |-> 422, error |-> "validation error"]
        ELSE [status |-> 201, body |-> "post", id |-> r.now,
              title |-> r.post.title, author_id |-> a.user.id]

FastapiCreatePost ==
    /\ Routed("fastapi", "create_post")
    /\ \E unauth \in NOT_AUTHENTICATED :
           Respond(Head(inbox), fastapi_create_post(Head(inbox), unauth))

\* ------------------------------------------------------ FastAPI users list

\* A bool query parameter: the texts pydantic reads as true and as false,
\* in any case; any other text is a validation error.
QueryBool(opt, default) ==
    LET t == PyLower(Get(opt, <<>>))
    IN  IF opt = Absent THEN [ok |-> TRUE, val |-> default]
        ELSE IF t \in {TRUE_TEXT, <<"1">>, <<"o", "n">>, <<"y", "e", "s">>, <<"t">>, <<"y">>}
        THEN [ok |-> TRUE, val |-> TRUE]
        ELSE IF t \in {FALSE_TEXT, <<"0">>, <<"o", "f", "f">>, <<"n", "o">>, <<"f">>, <<"n">>}
        THEN [ok |-> TRUE, val |-> FALSE]
        ELSE [ok |-> FALSE, val |-> default]

fastapi_all_users ==
    <<[id |-> 1, username |-> <<"a", "l", "i", "c", "e">>, is_active |-> TRUE],
      [id |-> 2, username |-> <<"b", "o", "b">>, is_active |-> FALSE],
      [id |-> 3, username |-> <<"c", "h", "a", "r", "l", "i", "e">>, is_active |-> TRUE],
      [id |-> 4, username |-> <<"d", "i", "a", "n", "a">>, is_active |-> TRUE]>>

\* FastAPI GET /users
fastapi_get_users(r) ==
    LET s == QueryGe(r.args.skip, 0, 0)
        l == QueryGeLe(r.args.limit, 10, 1, MAX_LIMIT)
        a == QueryBool(r.args.active_only, FALSE)
        search == Get(r.args.search, <<>>)
        Active(u) == u.is_active
        Match(u) == Contains(PyLower(search), PyLower(u.username))
        active_users == IF a.val THEN Filter(fastapi_all_users, Active)
                        ELSE fastapi_all_users
        filtered_users == IF search # <<>> THEN Filter(active_users, Match)
                          ELSE active_users
    IN  IF ~s.ok \/ ~l.ok \/ ~a.ok \/ r.args.search = Some(<<>>)
        THEN [status |-> 422, error |-> "validation error"]
        ELSE [status |-> 200,
              users |-> PySlice(filtered_users, s.val, s.val + l.val)]

FastapiGetUsers ==
    /\ Routed("fastapi", "users")
    /\ Respond(Head(inbox), fastapi_get_users(Head(inbox)))

\* ------------------------------------------------------------ user details

\* FastAPI GET /users/{user_id}; Path(..., gt=0) answers 422.
fastapi_get_user(r) ==
    LET id == PyInt(r.path_id)
        user_data == <<[id |-> 1, username |-> <<"a", "l", "i", "c", "e">>,
                        is_active |-> TRUE],
                       [id |-> 2, username |-> <<"b", "o", "b">>, is_active |-> FALSE],
                       [id |-> 3, username |-> <<"c", "h", "a", "r", "l", "i", "e">>,
                        is_active |-> TRUE]>>
    IN  IF ~id.ok \/ id.val <= 0 THEN [status |-> 422, error |-> "validation error"]
        ELSE IF id.val \notin DOMAIN user_data
        THEN [status |-> 404, error |-> "User not found"]
        ELSE [status |-> 200, body |-> "user", id |-> user_data[id.val].id,
              username |-> user_data[id.val].username,
              is_active |-> user_data[id.val].is_active]

FastapiGetUser ==
    /\ Routed("fastapi", "user_detail")
    /\ Respond(Head(inbox), fastapi_get_user(Head(inbox)))

\* Flask GET /post/<int:post_id>; the int converter matches digits only, a
\* path that is not all digits matches no route and the 404 handler answers.
flask_show_post(r) ==
    LET post_id == PyInt(r.path_id).val
    IN  IF ~AllDigits(r.path_id) THEN [status |-> 404, error |-> "Not Found"]
        ELSE IF post_id <= 0 THEN [status |-> 400, error |-> "Invalid post ID"]
        ELSE [status |-> 200, body |-> "post", post_id |-> post_id]

FlaskShowPost ==
    /\ Routed("flask", "post")
    /\ Respond(Head(inbox), flask_show_post(Head(inbox)))

\* Starlette GET /api/v1/users/{user_id:int}; a path that is not all digits
\* matches no route and the 404 handler answers.
starlette_user_detail(r) ==
    LET user_id == PyInt(r.path_id).val
    IN  IF ~AllDigits(r.path_id) THEN [status |-> 404, error |-> "Endpoint not found"]
        ELSE IF user_id <= 0 THEN [status |-> 400, error |-> "Invalid user ID"]
        ELSE IF user_id > STARLETTE_USERS
        THEN [status |-> 404, error |-> "User not found"]
        ELSE [status |-> 200, body |-> "user", id |-> user_id,
              username |-> USER_ \o PyStr(user_id),
              active |-> user_id % 3 # 0]

StarletteUserDetail ==
    /\ Routed("starlette", "user_detail")
    /\ Respond(Head(inbox), starlette_user_detail(Head(inbox)))

\* A get_user_details over a table that DELETE /users/{id} removes users
\* from.
get_user_details_stored(user_id) ==
    IF \/ user_id > TORNADO_USERS
       \/ \E i \in DOMAIN outbox :
              /\ outbox[i].req.route = "delete_user"
              /\ outbox[i].resp.status = 200
              /\ outbox[i].resp.user_id = user_id
    THEN <<>>
    ELSE <<[id |-> user_id, username |-> USER_ \o Pad3(user_id),
            active |-> user_id % 4 # 0]>>

\* A get_user_details whose table ends one user early.
get_user_details_short(user_id) ==
    IF user_id >= TORNADO_USERS THEN <<>>
    ELSE <<[id |-> user_id, username |-> USER_ \o Pad3(user_id),
            active |-> user_id % 4 # 0]>>

\* UserDetailHandler.get_user_details: <<>> for None.
get_user_details(user_id) ==
    IF user_id > TORNADO_USERS THEN <<>>
    ELSE <<[id |-> user_id, username |-> USER_ \o Pad3(user_id),
            active |-> user_id % 4 # 0]>>

\* UserDetailHandler.get_admin_user_info
get_admin_user_info(user_id) ==
    [login_attempts |-> user_id % 10,
     subscription_type |-> <<"free", "premium", "enterprise">>[(user_id % 3) + 1]]

\* Tornado GET /users/([0-9]+) (UserDetailHandler.get); a path that is not
\* all digits matches no route.
tornado_user_detail_get(r) ==
    LET user_id == PyInt(r.path_id).val
        user_data == get_user_details(user_id)
        current_user == tornado_get_current_user(r.auth)
    IN  IF ~AllDigits(r.path_id) THEN [status |-> 404, error |-> "Not Found"]
        ELSE IF user_id <= 0 THEN [status |-> 400, error |-> "Invalid user ID format"]
        ELSE IF user_data = <<>> THEN [status |-> 404, error |-> "User not found"]
        ELSE [status |-> 200, body |-> "user", id |-> user_data[1].id,
              username |-> user_data[1].username, active |-> user_data[1].active,
              admin_info |-> IF current_user # <<>> /\ current_user[1].is_admin
                             THEN <<get_admin_user_info(user_id)>> ELSE <<>>]

TornadoUserDetail ==
    /\ Routed("tornado", "user_detail")
    /\ Respond(Head(inbox), tornado_user_detail_get(Head(inbox)))

\* ------------------------------------------------- create, update, delete

\* What the body parsed as when it is JSON and not an object: null, the
\* number 5, the list [] or the string "abc". The fields of such a body are
\* all absent.
JsonValue(body) == IF "value" \in DOMAIN body THEN body.value ELSE "object"

\* The fields of a JSON object whose value is a number, not a string.
Numbers(body) == IF "numbers" \in DOMAIN body THEN body.numbers ELSE {}

\* The values for which `x or {}` is {}.
FALSY == {"null", "list"}

\* The values for which `field not in x` raises TypeError.
NO_CONTAINER == {"null", "number"}

\* The answer of the framework to an exception no handler catches.
INTERNAL_SERVER_ERROR == [status |-> 500, error |-> "Internal Server Error"]

IsAlnum(c) ==
    \/ IsDigit(c)
    \/ \E i \in 1..26 : c = UPPER[i] \/ c = LOWER[i]

\* The regex ^[\w\.-]+@[\w\.-]+\.\w+$ of the pydantic models.
EmailOk(t) ==
    LET W(c) == IsAlnum(c) \/ c \in {"_", ".", "-"}
    IN  \E a \in 2..Len(t), d \in 4..(Len(t) - 1) :
            /\ d >= a + 2
            /\ t[a] = "@"
            /\ t[d] = "."
            /\ \A k \in 1..(a - 1) : W(t[k])
            /\ \A k \in (a + 1)..(d - 1) : W(t[k])
            /\ \A k \in (d + 1)..Len(t) : IsAlnum(t[k]) \/ t[k] = "_"

\* Field(min_length=3, max_length=20) of a username.
UsernameOk(t) == Len(t) >= 3 /\ Len(t) <= 20

\* FastAPI POST /users; a body UserCreate rejects is answered 422.
fastapi_create_user(r) ==
    LET d == r.body.data
        username == Get(d.username, <<>>)
        letters == SelectSeq(username, LAMBDA c : c # "_")
    IN  IF \/ ~r.body.json
           \/ d.username = Absent \/ d.email = Absent \/ d.password = Absent
           \/ ~UsernameOk(username)
           \/ letters = <<>> \/ \E k \in DOMAIN letters : ~IsAlnum(letters[k])
           \/ ~EmailOk(d.email[1])
           \/ Len(d.password[1]) < 8
        THEN [status |-> 422, error |-> "validation error"]
        ELSE [status |-> 201, body |-> "user", id |-> r.now,
              username |-> PyLower(username), email |-> d.email[1],
              is_active |-> TRUE, is_admin |-> FALSE]

FastapiCreateUser ==
    /\ Routed("fastapi", "create_user")
    /\ Respond(Head(inbox), fastapi_create_user(Head(inbox)))

\* FastAPI PUT /users/{user_id}, for a body that is JSON.  The updated
\* record is a copy of current_user with the fields of the body set.
fastapi_update_user(r, unauth) ==
    LET a == fastapi_get_current_user(r.auth, unauth)
        id == PyInt(r.path_id)
        d == r.body.data
    IN  IF ~a.ok THEN [status |-> a.status, error |-> a.error]
        ELSE IF \/ ~id.ok \/ id.val <= 0
                \/ (d.username # Absent /\ ~UsernameOk(d.username[1]))
                \/ (d.email # Absent /\ ~EmailOk(d.email[1]))
        THEN [status |-> 422, error |-> "validation error"]
        ELSE IF id.val # a.user.id /\ ~a.user.is_admin
        THEN [status |-> 403, error |-> "You can only update your own profile"]
        ELSE [status |-> 200, body |-> "user", id |-> a.user.id,
              username |-> Get(d.username, a.user.username),
              is_admin |-> a.user.is_admin]

FastapiUpdateUser ==
    /\ Routed("fastapi", "update_user")
    /\ \E unauth \in NOT_AUTHENTICATED :
           Respond(Head(inbox), fastapi_update_user(Head(inbox), unauth))

\* FastAPI DELETE /users/{user_id}
fastapi_delete_user(r, unauth) ==
    LET a == fastapi_get_admin_user(r.auth, unauth)
        id == PyInt(r.path_id)
    IN  IF ~a.ok THEN [status |-> a.status, error |-> a.error]
        ELSE IF ~id.ok \/ id.val <= 0 THEN [status |-> 422, error |-> "validation error"]
        ELSE [status |-> 204, body |-> "deleted"]

FastapiDeleteUser ==
    /\ Routed("fastapi", "delete_user")
    /\ \E unauth \in NOT_AUTHENTICATED :
           Respond(Head(inbox), fastapi_delete_user(Head(inbox), unauth))

\* Flask /api/users, by method; get_json() answers 400 to a body that is
\* not JSON.
flask_api_users(r) ==
    LET username == Get(r.body.data.username, <<>>)
        data == IF JsonValue(r.body) \in FALSY THEN "object" ELSE JsonValue(r.body)
    IN  IF r.method = "GET" THEN [status |-> 200, body |-> "get_users"]
        ELSE IF r.method = "DELETE" THEN [status |-> 204, body |-> "delete_user"]
        ELSE IF ~r.body.json THEN [status |-> 400, error |-> "Bad Request"]
        ELSE IF r.method = "PUT"
        THEN [status |-> 200, body |-> "update_user", data |-> r.body.data]
        ELSE IF data # "object" THEN INTERNAL_SERVER_ERROR
        ELSE IF username = <<>> THEN [status |-> 400, error |-> "Username is required"]
        ELSE [status |-> 201, body |-> "create_user", data |-> r.body.data]

FlaskApiUsers ==
    /\ Routed("flask", "api_users")
    /\ Respond(Head(inbox), flask_api_users(Head(inbox)))

\* [field for field in required_fields if field not in data]
MissingFields(d) ==
    (IF d.username = Absent THEN <<"username">> ELSE <<>>)
        \o (IF d.email = Absent THEN <<"email">> ELSE <<>>)

\* Starlette POST /api/v1/users
starlette_create_user(r) ==
    LET d == r.body.data
    IN  IF ~r.body.json THEN [status |-> 400, error |-> "Invalid JSON"]
        ELSE IF JsonValue(r.body) \in NO_CONTAINER THEN INTERNAL_SERVER_ERROR
        ELSE IF MissingFields(d) # <<>>
        THEN [status |-> 400, error |-> "Missing required fields",
              missing |-> MissingFields(d)]
        ELSE [status |-> 201, body |-> "user", id |-> r.now,
              username |-> d.username[1], email |-> d.email[1], active |-> TRUE]

StarletteCreateUser ==
    /\ Routed("starlette", "create_user")
    /\ Respond(Head(inbox), starlette_create_user(Head(inbox)))

\* Tornado POST /users (UsersHandler.post and create_user_in_database)
tornado_users_post(r) ==
    LET d == r.body.data
    IN  IF ~r.body.json THEN [status |-> 400, error |-> "Invalid JSON format"]
        ELSE IF JsonValue(r.body) \in NO_CONTAINER THEN INTERNAL_SERVER_ERROR
        ELSE IF MissingFields(d) # <<>>
        THEN [status |-> 400, error |-> "Missing required fields",
              missing |-> MissingFields(d)]
        ELSE IF "username" \in Numbers(r.body) THEN INTERNAL_SERVER_ERROR
        ELSE IF Len(d.username[1]) < 3
        THEN [status |-> 400, error |-> "Username must be at least 3 characters"]
        ELSE IF "email" \in Numbers(r.body) THEN INTERNAL_SERVER_ERROR
        ELSE IF ~Contains(<<"@">>, d.email[1])
        THEN [status |-> 400, error |-> "Invalid email format"]
        ELSE [status |-> 201, body |-> "user", id |-> r.now,
              username |-> d.username[1], email |-> d.email[1], active |-> TRUE]

TornadoUsersPost ==
    /\ Routed("tornado", "create_user")
    /\ Respond(Head(inbox), tornado_users_post(Head(inbox)))

\* UserDetailHandler.update_user_in_database: <<>> for None.
update_user_in_database(user_id, data) ==
    IF user_id > TORNADO_USERS THEN <<>>
    ELSE <<[id |-> user_id,
            username |-> Get(data.username, USER_ \o Pad3(user_id)),
            email |-> Get(data.email, USER_ \o Pad3(user_id) \o AT_EXAMPLE_COM)]>>

\* Tornado PUT /users/([0-9]+) (UserDetailHandler.put)
tornado_user_detail_put(r) ==
    LET a == authenticated_async(r.auth)
        user_id == PyInt(r.path_id).val
        updated_user == update_user_in_database(user_id, r.body.data)
    IN  IF ~AllDigits(r.path_id) THEN [status |-> 404, error |-> "Not Found"]
        ELSE IF ~a.ok THEN [status |-> a.status, error |-> a.error]
        ELSE IF a.user.id # user_id /\ ~a.user.is_admin
        THEN [status |-> 403, error |-> "Permission denied"]
        ELSE IF ~r.body.json THEN [status |-> 400, error |-> "Invalid JSON format"]
        ELSE IF updated_user = <<>> THEN [status |-> 404, error |-> "User not found"]
        ELSE [status |-> 200, body |-> "updated", user |-> updated_user[1],
              updated_by |-> a.user.username]

TornadoUserPut ==
    /\ Routed("tornado", "update_user")
    /\ Respond(Head(inbox), tornado_user_detail_put(Head(inbox)))

\* UserDetailHandler.delete_user_from_database
delete_user_from_database(user_id) == ~(user_id > TORNADO_USERS)

\* Tornado DELETE /users/([0-9]+) (UserDetailHandler.delete)
tornado_user_detail_delete(r) ==
    LET a == tornado_require_admin(r.auth)
        user_id == PyInt(r.path_id).val
    IN  IF ~AllDigits(r.path_id) THEN [status |-> 404, error |-> "Not Found"]
        ELSE IF ~a.ok THEN [status |-> a.status, error |-> a.error]
        ELSE IF ~delete_user_from_database(user_id)
        THEN [status |-> 404, error |-> "User not found"]
        ELSE [status |-> 200, body |-> "deleted", user_id |-> user_id,
              deleted_by |-> a.user.username]

TornadoUserDelete ==
    /\ Routed("tornado", "delete_user")
    /\ Respond(Head(inbox), tornado_user_detail_delete(Head(inbox)))

\* ------------------------------------------------------------- file uploads

MAX_SIZE == 10 * 1024 * 1024

\* An upload_file that also turns away a file of exactly max_size.
upload_file_below_cap(r, unauth) ==
    LET a == fastapi_get_current_user(r.auth, unauth)
    IN  IF ~a.ok THEN [status |-> a.status, error |-> a.error]
        ELSE IF r.file = Absent THEN [status |-> 422, error |-> "validation error"]
        ELSE IF r.file[1].size >= 10 * 1024 * 1024
        THEN [status |-> 413, error |-> "File too large"]
        ELSE [status |-> 200, body |-> "upload", size |-> r.file[1].size,
              uploaded_by |-> a.user.username]

\* FastAPI POST /files/upload; File(...) answers 422 to a request without
\* the file.
fastapi_upload_file(r, unauth) ==
    LET a == fastapi_get_current_user(r.auth, unauth)
    IN  IF ~a.ok THEN [status |-> a.status, error |-> a.error]
        ELSE IF r.file = Absent THEN [status |-> 422, error |-> "validation error"]
        ELSE IF r.file[1].size > MAX_SIZE
        THEN [status |-> 413, error |-> "File too large"]
        ELSE [status |-> 200, body |-> "upload", size |-> r.file[1].size,
              uploaded_by |-> a.user.username]

FastapiUploadFile ==
    /\ Routed("fastapi", "upload")
    /\ \E unauth \in NOT_AUTHENTICATED :
           Respond(Head(inbox), fastapi_upload_file(Head(inbox), unauth))

\* form.items() of Starlette's FormData, a multidict built from the parts
\* of the body in their order: the items of dict(parts), one per field name,
\* at the place of the name's first part and with the value of its last.
form_items(form) ==
    LET firsts == SelectSeq([k \in DOMAIN form |-> k],
                            LAMBDA k : \A j \in 1..(k - 1) :
                                           form[j].field_name # form[k].field_name)
        final(name) == CHOOSE k \in DOMAIN form :
                           /\ form[k].field_name = name
                           /\ \A j \in (k + 1)..Len(form) : form[j].field_name # name
    IN  [i \in DOMAIN firsts |-> form[final(form[firsts[i]].field_name)]]

\* The loop of upload_handler over the items, from item i on.
RECURSIVE upload_loop(_, _, _, _)
upload_loop(form, i, uploaded_files, total_size) ==
    IF i > Len(form)
    THEN IF uploaded_files = <<>>
         THEN [status |-> 400, error |-> "No files were uploaded"]
         ELSE [status |-> 201, body |-> "upload", files |-> uploaded_files,
               total_size |-> total_size]
    ELSE IF ~form[i].is_file THEN upload_loop(form, i + 1, uploaded_files, total_size)
    ELSE IF form[i].size > MAX_SIZE THEN [status |-> 413, error |-> "File too large"]
    ELSE upload_loop(form, i + 1,
                     Append(uploaded_files,
                            [field_name |-> form[i].field_name, size |-> form[i].size,
                             file_id |-> Len(uploaded_files)]),
                     total_size + form[i].size)

\* Starlette POST /upload
starlette_upload_handler(r) ==
    IF starlette_authenticate(r.auth) = <<>>
    THEN [status |-> 401, error |-> "Authentication required for file uploads"]
    ELSE upload_loop(form_items(r.form), 1, <<>>, 0)

StarletteUpload ==
    /\ Routed("starlette", "upload")
    /\ Respond(Head(inbox), starlette_upload_handler(Head(inbox)))

\* -------------------------------------------------------------- thread pool

Reqs == 1..MaxInFlight

\* An executor with one worker thread more.
WORKERS_PLUS_ONE == 4 + 1

\* BaseHandler.executor = ThreadPoolExecutor(max_workers=4)
MAX_WORKERS == 4

\* No Tornado request in flight.
PoolIdle ==
    /\ work = [r \in Reqs |-> [at |-> "none", ops |-> 0]]
    /\ queue = <<>>

\* The requests whose blocking operation a worker thread is executing.
Running == {r \in Reqs : work[r].at = "running"}

\* The blocking operations a Tornado handler awaits, one after the other:
\* none (ProtectedHandler, AdminHandler), one (MainHandler, UsersHandler,
\* SearchHandler, UserDetailHandler) or two (UserDetailHandler.get for an
\* admin: get_user_details, then get_admin_user_info).
BlockingOps == {0, 1, 2}

\* The event loop runs the coroutine of request r up to its next await of a
\* @run_on_executor method, which submits the method to the executor, or
\* to its end, where the response is written.
Advance(r, ops) ==
    IF ops = 0
    THEN /\ work' = [work EXCEPT ![r] = [at |-> "done", ops |-> 0]]
         /\ UNCHANGED queue
    ELSE /\ work' = [work EXCEPT ![r] = [at |-> "queued", ops |-> ops]]
         /\ queue' = Append(queue, r)

\* The event loop starts the handler of request r (requests are numbered
\* in the order they arrive).
LoopStart(r) ==
    /\ work[r].at = "none"
    /\ r > 1 => work[r - 1].at # "none"
    /\ \E ops \in BlockingOps : Advance(r, ops)
    /\ UNCHANGED <<httpvars, wsvars>>

\* A free worker thread takes the oldest submitted operation and starts
\* its time.sleep.
WorkerTake ==
    /\ queue # <<>>
    /\ Cardinality(Running) < MAX_WORKERS
    /\ work' = [work EXCEPT ![Head(queue)].at = "running"]
    /\ queue' = Tail(queue)
    /\ UNCHANGED <<httpvars, wsvars>>

\* The operation of request r returns in its worker thread, which resolves
\* the future the coroutine awaits.
WorkerFinish(r) ==
    /\ work[r].at = "running"
    /\ work' = [work EXCEPT ![r].at = "ready"]
    /\ UNCHANGED <<queue, httpvars, wsvars>>

\* The event loop resumes the coroutine of request r after its await.
LoopResume(r) ==
    /\ work[r].at = "ready"
    /\ Advance(r, work[r].ops - 1)
    /\ UNCHANGED <<httpvars, wsvars>>

\* -------------------------------------------------------------- websockets

Conns == 1..MaxConns

\* A connection is "new" before the client connects, "open" while the
\* handler serves it, "closing" once its stream is closed (by the client, or
\* by the server aborting it) and "closed" after the handler's close
\* callback has run; closes counts the calls of websocket.close().
WsIdle(app) ==
    /\ sockets = [c \in Conns |-> [app |-> app, state |-> "new", sent |-> <<>>,
                                  closes |-> 0]]
    /\ connections = {}
    /\ last = [n |-> 0, conn |-> 0, frame |-> <<>>]

\* conn.write_message / websocket.send_text: the message joins what the
\* server has written to connection c.
Send(c, msg) == [sockets EXCEPT ![c].sent = Append(@, msg)]

\* The handler is given frame f on connection c.
Given(c, f) == last' = [n |-> last.n + 1, conn |-> c, frame |-> f]

\* The client of connection c may send a frame.
Receiving(app, c) ==
    /\ sockets[c].app = app
    /\ sockets[c].state = "open"
    /\ last.n < MaxFrames

\* The client may connect connection c (connections are used in order).
Connecting(app, c) ==
    /\ sockets[c].app = app
    /\ sockets[c].state = "new"
    /\ c > 1 => sockets[c - 1].state # "new"

\* json.loads(data) and its except branch: a text that is not JSON becomes
\* the object {"type": "text", "content": data}; a JSON text becomes its
\* value, an object or not.
json_loads(f) ==
    IF f.kind = "text"
    THEN [kind |-> "object", type |-> Some("text"), content |-> f.content,
          sender |-> Absent]
    ELSE f

\* send_text raises on connection c, whose client has gone: the handler
\* leaves its loop through the except branch.
SendFails(c) == [sockets EXCEPT ![c].state = "closing"]

\* An accept that is not followed by the welcome.
accept_without_welcome(c) ==
    /\ Connecting("fastapi", c)
    /\ sockets' = [sockets EXCEPT ![c].state = "open"]
    /\ UNCHANGED <<connections, last, httpvars, poolvars>>

\* FastAPI /ws, up to the receive loop: accept and welcome.
FastapiWsOpen(c) ==
    /\ Connecting("fastapi", c)
    /\ sockets' = [Send(c, [type |-> "welcome"]) EXCEPT ![c].state = "open"]
    /\ UNCHANGED <<connections, last, httpvars, poolvars>>

\* One turn of the receive loop of FastAPI's websocket_endpoint.
fastapi_ws_response(f) ==
    LET message == json_loads(f)
    IN  IF message.kind = "object" /\ message.type = Some("ping")
        THEN [type |-> "pong"]
        ELSE [type |-> "echo", data |-> message]

FastapiWsMessage(c, f) ==
    /\ Receiving("fastapi", c)
    /\ Given(c, f)
    /\ \/ sockets' = Send(c, fastapi_ws_response(f))
       \/ sockets' = SendFails(c)
    /\ UNCHANGED <<connections, httpvars, poolvars>>

\* Starlette /ws, up to the receive loop: accept and welcome.
StarletteWsOpen(c) ==
    /\ Connecting("starlette", c)
    /\ sockets' = [Send(c, [type |-> "welcome"]) EXCEPT ![c].state = "open"]
    /\ UNCHANGED <<connections, last, httpvars, poolvars>>

\* Starlette process_websocket_message
process_websocket_message(message) ==
    LET msg_type == Get(message.type, "text")
    IN  IF message.kind # "object" THEN [type |-> "text_echo", message |-> message]
        ELSE IF msg_type = "echo"
        THEN [type |-> "echo_response", original |-> message]
        ELSE IF msg_type = "time" THEN [type |-> "time_response"]
        ELSE IF msg_type = "stats"
        THEN [type |-> "stats_response", active_connections |-> 12]
        ELSE IF msg_type = "ping" THEN [type |-> "pong"]
        ELSE [type |-> "unknown_command", message |-> msg_type]

\* One turn of the receive loop of Starlette's websocket_endpoint.
StarletteWsMessage(c, f) ==
    /\ Receiving("starlette", c)
    /\ Given(c, f)
    /\ \/ sockets' = Send(c, process_websocket_message(json_loads(f)))
       \/ sockets' = SendFails(c)
    /\ UNCHANGED <<connections, httpvars, poolvars>>

\* AdvancedWebSocket.open
TornadoWsOpen(c) ==
    /\ Connecting("tornado", c)
    /\ connections' = connections \cup {c}
    /\ sockets' = [Send(c, [type |-> "welcome",
                            active_connections |-> Cardinality(connections')])
                       EXCEPT ![c].state = "open"]
    /\ UNCHANGED <<last, httpvars, poolvars>>

\* The orders in which a for loop may visit the members of a set.
Orders(S) ==
    {o \in [1..Cardinality(S) -> S] :
        \A i \in DOMAIN o : \A j \in DOMAIN o : o[i] = o[j] => i = j}

\* The broadcast loop of process_message, run by connection c over the
\* registry in the order o.  write_message raises on a connection whose
\* stream is closed; the except branch discards that connection from the
\* set the loop is iterating, and the loop's next step raises RuntimeError
\* (set changed size during iteration), which leaves process_message.
broadcast(c, o) ==
    LET failed == {i \in DOMAIN o : o[i] # c /\ sockets[o[i]].state # "open"}
        stop == IF failed = {} THEN Len(o) + 1
                ELSE CHOOSE i \in failed : \A j \in failed : i <= j
    IN  [written |-> {o[i] : i \in {j \in DOMAIN o : j < stop /\ o[j] # c}},
         discarded |-> IF failed = {} THEN {} ELSE {o[stop]},
         raised |-> failed # {}]

\* AdvancedWebSocket.on_message and process_message.  An exception that
\* leaves on_message makes Tornado log it and abort the connection.
TornadoWsMessage(c, f) ==
    LET data == json_loads(f)
        msg_type == Get(data.type, "echo")
    IN  /\ Receiving("tornado", c)
        /\ Given(c, f)
        /\ IF data.kind # "object"
           THEN /\ sockets' = [sockets EXCEPT ![c].state = "closing"]
                /\ UNCHANGED connections
           ELSE IF msg_type = "echo"
           THEN /\ sockets' = Send(c, [type |-> "echo_response", original |-> data])
                /\ UNCHANGED connections
           ELSE IF msg_type = "broadcast"
           THEN \E o \in Orders(connections) :
                    LET b == broadcast(c, o)
                        msg == [type |-> "broadcast",
                                content |-> Get(data.content, <<>>),
                                sender |-> Get(data.sender, "anonymous")]
                    IN  /\ sockets' =
                               [k \in Conns |->
                                   IF k \in b.written
                                   THEN [sockets[k] EXCEPT !.sent = Append(@, msg)]
                                   ELSE IF b.raised /\ k = c
                                   THEN [sockets[k] EXCEPT !.state = "closing"]
                                   ELSE sockets[k]]
                        /\ connections' = connections \ b.discarded
           ELSE IF msg_type = "stats"
           THEN /\ sockets' = Send(c, [type |-> "stats_response",
                                       active_connections |-> Cardinality(connections)])
                /\ UNCHANGED connections
           ELSE IF msg_type = "time"
           THEN /\ sockets' = Send(c, [type |-> "time_response"])
                /\ UNCHANGED connections
           ELSE UNCHANGED <<sockets, connections>>
        /\ UNCHANGED <<httpvars, poolvars>>

\* The stream of connection c closes under the handler.
WsDrop(c) ==
    /\ sockets[c].state = "open"
    /\ last.n < MaxFrames
    /\ Given(c, [kind |-> "close", type |-> Absent, content |-> Absent,
                 sender |-> Absent])
    /\ sockets' = [sockets EXCEPT ![c].state = "closing"]
    /\ UNCHANGED <<connections, httpvars, poolvars>>

\* An on_close that leaves the connection in the registry.
on_close_keeps(c) ==
    /\ sockets[c].state = "closing"
    /\ sockets' = [sockets EXCEPT ![c].state = "closed"]
    /\ UNCHANGED <<connections, last, httpvars, poolvars>>

\* The handler learns that connection c is gone: AdvancedWebSocket.on_close,
\* or the except and finally branches of a websocket_endpoint, where the
\* handler calls websocket.close() and returns.
WsOnClose(c) ==
    /\ sockets[c].state = "closing"
    /\ sockets' = [sockets EXCEPT ![c].state = "closed",
                                  ![c].closes = IF sockets[c].app = "tornado"
                                                THEN @ ELSE @ + 1]
    /\ connections' = connections \ {c}
    /\ UNCHANGED <<last, httpvars, poolvars>>

\* ------------------------------------------------------------ the requests

PageArgs ==
    {Absent, Some(<<"0">>), Some(<<"1">>), Some(<<"2">>), Some(<<"5">>),
     Some(<<"3">>), Some(<<"1", "0">>), Some(<<"-", "1">>), Some(<<"a", "b", "c">>)}

LimitArgs ==
    {Absent, Some(<<"0">>), Some(<<"1">>), Some(<<"1", "0">>), Some(<<"2", "5">>),
     Some(<<"1", "0", "0">>), Some(<<"1", "0", "1">>), Some(<<"-", "1">>),
     Some(<<"x">>)}

SearchArgs ==
    {Absent, Some(<<>>), Some(<<"U", "S", "E", "R", "_", "4">>), Some(<<"_", "0", "1">>),
     Some(<<"z", "z">>)}

ActiveOnlyArgs == {Absent, Some(<<"T", "r", "u", "e">>), Some(<<"n", "o">>)}

UsersRequests ==
    {[app |-> "flask", route |-> "users",
      args |-> [page |-> p, limit |-> l]] : p \in PageArgs, l \in LimitArgs}
    \cup
    {[app |-> "starlette", route |-> "users",
      args |-> [page |-> p, limit |-> l, search |-> s]] :
        p \in PageArgs, l \in LimitArgs, s \in SearchArgs}
    \cup
    {[app |-> "tornado", route |-> "users",
      args |-> [page |-> p, limit |-> l, search |-> s, active_only |-> a]] :
        p \in PageArgs, l \in LimitArgs, s \in SearchArgs, a \in ActiveOnlyArgs}

FastapiUsersRequests ==
    {[app |-> "fastapi", route |-> "users",
      args |-> [skip |-> k, limit |-> l, active_only |-> a, search |-> s]] :
        k \in {Absent, Some(<<"0">>), Some(<<"2">>), Some(<<"-", "1">>)},
        l \in {Absent, Some(<<"0">>), Some(<<"1">>)},
        a \in ActiveOnlyArgs \cup {Some(<<"m", "a", "y", "b", "e">>)},
        s \in {Absent, Some(<<>>), Some(<<"A">>)}}

QArgs == {Absent, Some(<<>>), Some(<<"x">>)}

CategoryArgs == {Absent, Some("users"), Some("bogus")}

\* category is the parameter the Tornado handler reads as "type".
SearchRequests ==
    {[app |-> a, route |-> "search",
      args |-> [q |-> q, category |-> c, page |-> p, limit |-> l]] :
        a \in {"flask", "fastapi", "starlette", "tornado"},
        q \in QArgs, c \in CategoryArgs, p \in PageArgs, l \in LimitArgs}

\* Authorization headers: none, a bearer token of the table, bearer tokens
\* outside it (unknown, empty, a table token with one more character or in
\* another case), another scheme, and a token with no scheme.
AuthHeaders ==
    {Absent,
     Some(BEARER \o VALID_TOKEN), Some(BEARER \o ADMIN_TOKEN), Some(BEARER \o USER_TOKEN),
     Some(BEARER \o <<"x">>), Some(BEARER), Some(BEARER \o ADMIN_TOKEN \o <<"s">>),
     Some(BEARER \o <<"A">> \o Tail(ADMIN_TOKEN)),
     Some(<<"T", "o", "k", "e", "n", " ">> \o ADMIN_TOKEN), Some(ADMIN_TOKEN)}

IdTexts ==
    {<<"0">>, <<"1">>, <<"2">>, <<"3">>, <<"4">>, <<"5", "0">>, <<"5", "1">>,
     <<"1", "0", "0">>, <<"1", "0", "1">>, <<"-", "1">>}

Clock == {1700000000, 1700000001}

Posts ==
    {[title |-> <<"t">>, content |-> <<"s", "h", "o", "r", "t">>],
     [title |-> <<"t">>, content |-> <<"l", "o", "n", "g", " ", "e", "n", "o", "u", "g", "h">>]}

ProtectedRequests ==
    {[app |-> a, route |-> "protected", auth |-> h] :
        a \in {"flask", "starlette", "tornado"}, h \in AuthHeaders}
    \cup
    {[app |-> a, route |-> "admin", auth |-> h] :
        a \in {"flask", "fastapi", "starlette", "tornado"}, h \in AuthHeaders}
    \cup
    {[app |-> "flask", route |-> "data", auth |-> h, is_json |-> j] :
        h \in AuthHeaders, j \in BOOLEAN}
    \cup
    {[app |-> "fastapi", route |-> "admin_user_details", auth |-> h, path_id |-> i] :
        h \in AuthHeaders, i \in IdTexts}
    \cup
    {[app |-> "fastapi", route |-> "create_post", auth |-> h, post |-> b, now |-> t] :
        h \in AuthHeaders, b \in Posts, t \in Clock}

DetailRequests ==
    {[app |-> a, route |-> "user_detail", path_id |-> i, auth |-> h] :
        a \in {"fastapi", "starlette", "tornado"}, i \in IdTexts \cup {PyStr(t) : t \in Clock},
        h \in {Absent, Some(BEARER \o VALID_TOKEN), Some(BEARER \o ADMIN_TOKEN),
               Some(BEARER \o <<"x">>)}}

PostRequests ==
    {[app |-> "flask", route |-> "post", path_id |-> i] : i \in IdTexts}

NotJson == [json |-> FALSE, data |-> [username |-> Absent, email |-> Absent, password |-> Absent]]

UsernameFields == {Absent, Some(<<>>), Some(<<"a", "b">>), Some(<<"B", "o", "b", "_", "1">>)}

EmailFields == {Absent, Some(<<"n", "o", "p", "e">>), Some(<<"b", "@", "x", ".", "i", "o">>)}

PasswordFields == {Absent, Some(<<"s", "h", "o", "r", "t">>),
                   Some(<<"l", "o", "n", "g", "e", "r", "-", "1">>)}

\* JSON bodies that are not an object of strings: null, 5, [] and "abc", an
\* object whose username is the number 1234 and one whose email is.
OddBodies ==
    {[json |-> TRUE, value |-> v,
      data |-> [username |-> Absent, email |-> Absent, password |-> Absent]] :
        v \in {"null", "number", "list", "string"}}
    \cup
    {[json |-> TRUE, numbers |-> {"username"},
      data |-> [username |-> Some(<<"1", "2", "3", "4">>),
                email |-> Some(<<"b", "@", "x", ".", "i", "o">>), password |-> Absent]],
     [json |-> TRUE, numbers |-> {"email"},
      data |-> [username |-> Some(<<"B", "o", "b", "_", "1">>),
                email |-> Some(<<"1", "2", "3", "4">>), password |-> Absent]]}

OddRequests ==
    {[app |-> a, route |-> "create_user", body |-> b, now |-> t] :
        a \in {"starlette", "tornado"}, b \in OddBodies, t \in Clock}
    \cup
    {[app |-> "flask", route |-> "api_users", method |-> "POST", body |-> b] :
        b \in OddBodies}

CreateBodies ==
    {NotJson} \cup
    {[json |-> TRUE, data |-> [username |-> u, email |-> e, password |-> pw]] :
        u \in UsernameFields, e \in EmailFields, pw \in PasswordFields}

JsonUpdateBodies ==
    {[json |-> TRUE, data |-> [username |-> u, email |-> e, password |-> Absent]] :
        u \in {Absent, Some(<<"a", "b">>), Some(<<"B", "o", "b", "_", "1">>)},
        e \in {Absent, Some(<<"n", "o", "p", "e">>)}}

UpdateBodies == {NotJson} \cup JsonUpdateBodies

WriteRequests ==
    {[app |-> a, route |-> "create_user", body |-> b, now |-> t] :
        a \in {"fastapi", "starlette", "tornado"}, b \in CreateBodies, t \in Clock}
    \cup
    {[app |-> "flask", route |-> "api_users", method |-> m, body |-> b] :
        m \in {"GET", "POST", "PUT", "DELETE"}, b \in CreateBodies}
    \cup
    {[app |-> "fastapi", route |-> "update_user", auth |-> h, path_id |-> i, body |-> b] :
        h \in AuthHeaders, i \in IdTexts, b \in JsonUpdateBodies}
    \cup
    {[app |-> "tornado", route |-> "update_user", auth |-> h, path_id |-> i, body |-> b] :
        h \in AuthHeaders, i \in IdTexts, b \in UpdateBodies}
    \cup
    {[app |-> a, route |-> "delete_user", auth |-> h, path_id |-> i] :
        a \in {"fastapi", "tornado"}, h \in AuthHeaders, i \in IdTexts}

FileSizes == {0, 1, MAX_SIZE - 1, MAX_SIZE, MAX_SIZE + 1, 2 * MAX_SIZE}

FieldNames == <<"file", "note", "extra">>

\* The multipart bodies of up to MaxFields parts, each a text value or a
\* file; a part repeats the field name of an earlier part or takes the next
\* unused one.
Forms ==
    UNION {{[i \in 1..n |-> [field_name |-> FieldNames[g[i]], is_file |-> f[i].is_file,
                             size |-> f[i].size]] :
                f \in [1..n -> {[is_file |-> FALSE, size |-> 0]}
                                 \cup {[is_file |-> TRUE, size |-> z] : z \in FileSizes}],
                g \in {h \in [1..n -> 1..n] :
                          \A i \in 1..n : h[i] <= 1 + Cardinality({h[j] : j \in 1..(i - 1)})}} :
           n \in 0..MaxFields}

UploadRequests ==
    {[app |-> "fastapi", route |-> "upload", auth |-> h, file |-> f] :
        h \in AuthHeaders, f \in {Absent} \cup {Some([size |-> z]) : z \in FileSizes}}
    \cup
    {[app |-> "starlette", route |-> "upload", auth |-> h, form |-> f] :
        h \in {Absent, Some(BEARER \o VALID_TOKEN), Some(BEARER \o <<"x">>)}, f \in Forms}

Requests ==
    UsersRequests \cup SearchRequests \cup ProtectedRequests \cup DetailRequests
        \cup WriteRequests \cup UploadRequests \cup PostRequests \cup OddRequests
        \cup FastapiUsersRequests

\* ------------------------------------------------------------------ claims

Handled == DOMAIN outbox

\* The elements of coll at the 1-based positions a..b that exist (b <= Len).
Positions(coll, a, b) ==
    [k \in 1..(b - Max(a, 1) + 1) |-> coll[Max(a, 1) + k - 1]]

\* The collection a users-list request pages through.
UsersCollection(e) ==
    IF e.req.app = "flask" THEN flask_all_users
    ELSE IF e.req.app = "starlette" THEN starlette_filter_users(e.resp.search)
    ELSE tornado_filter_users(e.resp.search, e.resp.active_only)

\* A 200 answer of a users list is the page the claim describes.
UsersPageConsistent(e) ==
    LET page == e.resp.page
        limit == e.resp.limit
        total == e.resp.total
    IN  /\ total = Len(UsersCollection(e))
        /\ e.resp.users = Positions(UsersCollection(e), (page - 1) * limit + 1,
                                    Min(page * limit, total))
        /\ e.resp.has_next = (page * limit < total)

UsersListOk(e, app) ==
    e.req.app = app /\ e.req.route = "users" /\ e.resp.status = 200

\* C1: in the users lists of Flask, Starlette and Tornado, every 200 answer
\* returns exactly the elements at positions (page-1)*limit+1 ..
\* min(page*limit, total) of the filtered collection, in order, and has_next
\* holds exactly when page*limit < total.
C1_UsersPage ==
    \A i \in Handled :
        (\E app \in {"flask", "starlette", "tornado"} : UsersListOk(outbox[i], app))
            => UsersPageConsistent(outbox[i])

SearchOk(e, app) ==
    e.req.app = app /\ e.req.route = "search" /\ e.resp.status = 200

ResultIds(e) == [k \in DOMAIN e.resp.results |-> e.resp.results[k].id]

\* A 200 answer of a search is the page of ids the claim describes.
SearchPageConsistent(e) ==
    LET page == e.resp.page
        limit == e.resp.limit
        total == e.resp.total
        ids == ResultIds(e)
    IN  /\ \A k \in DOMAIN ids : ids[k] >= 1 /\ ids[k] <= total
        /\ ids = PyRange((page - 1) * limit + 1, Min(page * limit, total) + 1)
        /\ Len(ids) <= limit
        /\ e.resp.has_next = (page * limit < total)

\* C2: in the searches of Flask, FastAPI and Starlette, every 200 answer
\* returns ids within 1..total, exactly (page-1)*limit+1 .. min(page*limit,
\* total) in increasing order, at most limit of them, and has_next holds
\* exactly when page*limit < total.
C2_SearchPage ==
    \A i \in Handled :
        (\E app \in {"flask", "fastapi", "starlette"} : SearchOk(outbox[i], app))
            => SearchPageConsistent(outbox[i])

\* C8: in the searches of Flask, Starlette and Tornado, a request whose q
\* is missing or empty is answered 400, whatever the other parameters are.
C8_EmptyQuery400 ==
    \A i \in Handled :
        LET e == outbox[i]
        IN  (/\ e.req.route = "search"
             /\ e.req.app \in {"flask", "starlette", "tornado"}
             /\ Get(e.req.args.q, <<>>) = <<>>)
                => e.resp.status = 400

\* ------------------------------------------------------- the specification

\* ------------------------------------------------- sequences of requests

ADMIN == Some(BEARER \o ADMIN_TOKEN)

NewUser ==
    [json |-> TRUE,
     data |-> [username |-> Some(<<"B", "o", "b", "_", "1">>),
               email |-> Some(<<"b", "@", "x", ".", "i", "o">>),
               password |-> Some(<<"l", "o", "n", "g", "e", "r", "-", "1">>)]]

Rename ==
    [json |-> TRUE,
     data |-> [username |-> Some(<<"B", "o", "b", "_", "1">>), email |-> Absent,
               password |-> Absent]]

FirstPage == [page |-> Some(<<"1">>), limit |-> Some(<<"1">>)]

Query == [q |-> Some(<<"x">>), category |-> Absent, page |-> Absent,
          limit |-> Some(<<"1">>)]

\* What a client sends one app: reads of the list, of one user and of the
\* search, and the writes that name the same user.
FrameRequests(app) ==
    IF app = "flask"
    THEN {[app |-> app, route |-> "api_users", method |-> m, body |-> NewUser] :
              m \in {"POST", "PUT", "DELETE"}}
         \cup {[app |-> app, route |-> "users", args |-> FirstPage],
               [app |-> app, route |-> "search", args |-> Query]}
    ELSE IF app = "fastapi"
    THEN {[app |-> app, route |-> "user_detail", path_id |-> i, auth |-> Absent] :
              i \in {<<"2">>, PyStr(1700000000)}}
         \cup {[app |-> app, route |-> "create_user", body |-> NewUser, now |-> 1700000000],
               [app |-> app, route |-> "update_user", auth |-> ADMIN, path_id |-> <<"2">>,
                body |-> Rename],
               [app |-> app, route |-> "delete_user", auth |-> ADMIN, path_id |-> <<"2">>],
               [app |-> app, route |-> "search", args |-> Query]}
    ELSE IF app = "starlette"
    THEN {[app |-> app, route |-> "user_detail", path_id |-> i, auth |-> Absent] :
              i \in {<<"5">>, PyStr(1700000000)}}
         \cup {[app |-> app, route |-> "create_user", body |-> NewUser, now |-> 1700000000],
               [app |-> app, route |-> "users",
                args |-> [page |-> Some(<<"1">>), limit |-> Some(<<"1">>),
                          search |-> Absent]]}
    ELSE {[app |-> app, route |-> "user_detail", path_id |-> i, auth |-> Absent] :
              i \in {<<"5">>, PyStr(1700000000)}}
         \cup {[app |-> app, route |-> "create_user", body |-> NewUser, now |-> 1700000000],
               [app |-> app, route |-> "update_user", auth |-> ADMIN, path_id |-> <<"5">>,
                body |-> Rename],
               [app |-> app, route |-> "delete_user", auth |-> ADMIN, path_id |-> <<"5">>],
               [app |-> app, route |-> "users",
                args |-> [page |-> Some(<<"1">>), limit |-> Some(<<"1">>),
                          search |-> Absent, active_only |-> Absent]],
               [app |-> app, route |-> "search", args |-> Query]}

\* The sequences of one to MaxRequests requests to one app.
FrameSequences ==
    UNION {UNION {[1..n -> FrameRequests(app)] : n \in 1..MaxRequests} :
               app \in {"flask", "fastapi", "starlette", "tornado"}}

\* ---------------------------------------------------------------- tokens

ValidTokens == {VALID_TOKEN, ADMIN_TOKEN, USER_TOKEN}

\* The bearer token a request carries, if any.
BearerToken(auth) ==
    IF auth # Absent /\ StartsWith(auth[1], BEARER)
    THEN Some(DropPrefix(auth[1], 7)) ELSE Absent

HasValidToken(r) ==
    BearerToken(r.auth) # Absent /\ BearerToken(r.auth)[1] \in ValidTokens

\* The endpoints behind authentication, as <<app, route>>.
PROTECTED ==
    {<<"flask", "protected">>, <<"flask", "data">>, <<"flask", "admin">>,
     <<"fastapi", "update_user">>, <<"fastapi", "delete_user">>,
     <<"fastapi", "create_post">>, <<"fastapi", "upload">>, <<"fastapi", "admin">>,
     <<"fastapi", "admin_user_details">>,
     <<"starlette", "protected">>, <<"starlette", "admin">>, <<"starlette", "upload">>,
     <<"tornado", "protected">>, <<"tornado", "admin">>,
     <<"tornado", "update_user">>, <<"tornado", "delete_user">>}

\* The request is one a protected endpoint receives (Tornado routes
\* /users/([0-9]+) only for a path of digits).
AtProtected(r) ==
    /\ <<r.app, r.route>> \in PROTECTED
    /\ (r.app = "tornado" /\ r.route \in {"update_user", "delete_user"})
           => AllDigits(r.path_id)

C4_Status ==
    \A i \in Handled :
        LET e == outbox[i]
        IN  AtProtected(e.req)
                => /\ ~HasValidToken(e.req) => e.resp.status = 401
                   /\ e.resp.status = 403 => HasValidToken(e.req)

\* The user name an app's authentication lookup gives a header, if any.
Identity(app, auth) ==
    IF app = "flask"
    THEN IF flask_require_auth(auth).ok
         THEN Some(flask_require_auth(auth).user.username) ELSE Absent
    ELSE IF app = "fastapi"
    THEN IF fastapi_get_current_user(auth, 401).ok
         THEN Some(fastapi_get_current_user(auth, 401).user.username) ELSE Absent
    ELSE IF app = "starlette"
    THEN IF starlette_authenticate(auth) # <<>>
         THEN Some(starlette_authenticate(auth)[1].username) ELSE Absent
    ELSE IF tornado_get_current_user(auth) # <<>>
         THEN Some(tornado_get_current_user(auth)[1].username) ELSE Absent

\* The endpoints that answer with the name of the authenticated user.
NamesUser(r) ==
    \/ r.route = "protected"
    \/ r.route = "upload" /\ r.app = "fastapi" /\ r.file # Absent
           /\ r.file[1].size <= MAX_SIZE

RespUser(e) == IF e.req.app = "fastapi" THEN e.resp.uploaded_by ELSE e.resp.user

\* C5: in each of the four apps every one of the three bearer tokens is
\* accepted, and the three tokens map to three different user names.
C5_ThreeIdentities ==
    \A i \in Handled :
        LET e == outbox[i]
        IN  (NamesUser(e.req) /\ HasValidToken(e.req))
                => /\ e.resp.status = 200
                   /\ \A t \in ValidTokens \ {BearerToken(e.req.auth)[1]} :
                          Identity(e.req.app, Some(BEARER \o t)) # Some(RespUser(e))

\* C6: in every framework the admin statistics endpoint returns the
\* statistics exactly when the bearer token of the request is admin-token.
C6_AdminStats ==
    \A i \in Handled :
        LET e == outbox[i]
            is_admin_token == BearerToken(e.req.auth) = Some(ADMIN_TOKEN)
        IN  e.req.route = "admin"
                => /\ ("stats" \in DOMAIN e.resp) <=> is_admin_token
                   /\ (e.resp.status = 200) <=> is_admin_token

\* Tornado's /admin has returned the statistics to admin-token.
C6_Witness ==
    \E i \in Handled :
        /\ outbox[i].req.app = "tornado"
        /\ outbox[i].req.route = "admin"
        /\ BearerToken(outbox[i].req.auth) = Some(ADMIN_TOKEN)
        /\ "stats" \in DOMAIN outbox[i].resp

\* ------------------------------------------------------------ identifiers

\* The highest id of an app's users.
Highest(app) ==
    IF app = "fastapi" THEN 3
    ELSE IF app = "starlette" THEN STARLETTE_USERS ELSE TORNADO_USERS

\* The handled requests GET /users/{id} whose identifier is a number.
Details == {i \in Handled : outbox[i].req.route = "user_detail"
                             /\ PyInt(outbox[i].req.path_id).ok}

\* C7 as stated: every numeric identifier outside the range of the existing
\* ids yields 404, every identifier inside it yields 200 with that id.
C7_OutOfRange404 ==
    \A i \in Details :
        LET e == outbox[i]
            id == PyInt(e.req.path_id).val
        IN  IF id \in 1..Highest(e.req.app)
            THEN e.resp.status = 200 /\ e.resp.id = id
            ELSE e.resp.status = 404

\* C7: every identifier above the highest existing id yields 404 and every
\* identifier in the range yields 200 with that id; the identifier 0 yields
\* 400 in Starlette and Tornado and 422 in FastAPI, a negative one 422 in
\* FastAPI and 404 in Starlette and Tornado.
C7_UserDetail ==
    \A i \in Details :
        LET e == outbox[i]
            id == PyInt(e.req.path_id).val
        IN  IF id \in 1..Highest(e.req.app)
            THEN e.resp.status = 200 /\ e.resp.id = id
            ELSE IF id > Highest(e.req.app) THEN e.resp.status = 404
            ELSE IF e.req.app = "fastapi" THEN e.resp.status = 422
            ELSE IF id = 0 THEN e.resp.status = 400
            ELSE e.resp.status = 404

\* Tornado has answered 200 to the highest id, with that id.
C7_Witness ==
    \E i \in Details :
        /\ outbox[i].req.app = "tornado"
        /\ PyInt(outbox[i].req.path_id).val = TORNADO_USERS
        /\ outbox[i].resp.status = 200
        /\ outbox[i].resp.id = TORNADO_USERS

\* ---------------------------------------------------------------- uploads

\* The sizes of the files of a form, in the order of its items.
FileSizesOf(form) ==
    LET files == SelectSeq(form, LAMBDA f : f.is_file)
    IN  [k \in DOMAIN files |-> files[k].size]

\* The sizes of the files an upload request carries.
Uploaded(r) ==
    IF r.app = "fastapi"
    THEN IF r.file = Absent THEN <<>> ELSE <<r.file[1].size>>
    ELSE FileSizesOf(r.form)

\* C9: an authenticated upload with a file larger than 10*1024*1024 bytes
\* is answered 413 and records no upload; an authenticated upload of one
\* file of at most that size is accepted and reports the size of the file.
C9_UploadCap ==
    \A i \in Handled :
        LET e == outbox[i]
            sizes == Uploaded(e.req)
        IN  (e.req.route = "upload" /\ Identity(e.req.app, e.req.auth) # Absent)
                => /\ (\E k \in DOMAIN sizes : sizes[k] > 10 * 1024 * 1024)
                          => /\ e.resp.status = 413
                             /\ DOMAIN e.resp \cap {"body", "size", "files"} = {}
                   /\ (Len(sizes) = 1 /\ sizes[1] <= 10 * 1024 * 1024)
                          => /\ e.resp.status \in {200, 201}
                             /\ IF e.req.app = "fastapi"
                                THEN e.resp.size = sizes[1]
                                ELSE /\ Len(e.resp.files) = 1
                                     /\ e.resp.files[1].size = sizes[1]
                                     /\ e.resp.total_size = sizes[1]

\* FastAPI has accepted a file of exactly the cap.
C9_Witness ==
    \E i \in Handled :
        /\ outbox[i].req.app = "fastapi"
        /\ outbox[i].req.route = "upload"
        /\ Uploaded(outbox[i].req) = <<10 * 1024 * 1024>>
        /\ outbox[i].resp.status = 200
        /\ outbox[i].resp.size = 10 * 1024 * 1024

\* One request, any of Requests.
Init ==
    /\ inbox \in {<<r>> : r \in Requests}
    /\ outbox = <<>>
    /\ WsIdle("tornado")
    /\ PoolIdle

Next ==
    \/ FlaskGetUsers
    \/ StarletteUsersList
    \/ TornadoUsersGet
    \/ FlaskSearch
    \/ FastapiSearch
    \/ StarletteSearch
    \/ TornadoSearch
    \/ FlaskProtected
    \/ FlaskHandleData
    \/ FlaskAdminStats
    \/ StarletteProtected
    \/ StarletteAdmin
    \/ TornadoProtected
    \/ TornadoAdmin
    \/ FastapiAdminStats
    \/ FastapiAdminUserDetails
    \/ FastapiCreatePost
    \/ FastapiGetUser
    \/ StarletteUserDetail
    \/ TornadoUserDetail
    \/ FastapiCreateUser
    \/ FastapiUpdateUser
    \/ FastapiDeleteUser
    \/ FlaskApiUsers
    \/ StarletteCreateUser
    \/ TornadoUsersPost
    \/ TornadoUserPut
    \/ TornadoUserDelete
    \/ FastapiUploadFile
    \/ StarletteUpload
    \/ FlaskShowPost
    \/ FastapiGetUsers

Spec == Init /\ [][Next]_vars

\* ------------------------------------------------------------ frame claims

IsRead(r) == r.route \in {"users", "user_detail", "search"}

\* Entry i answers a write that succeeded and names user id.
Wrote(i, routes, id) ==
    /\ outbox[i].req.route \in routes
    /\ outbox[i].resp.status \in {200, 201, 204}
    /\ IF outbox[i].req.route = "create_user" THEN outbox[i].resp.id = id
       ELSE PyInt(outbox[i].req.path_id).val = id

\* Entry j answers GET /users/{id}.
ReadsUser(j, id) ==
    /\ outbox[j].req.route = "user_detail"
    /\ PyInt(outbox[j].req.path_id) = [ok |-> TRUE, val |-> id]

\* C10: no request changes the outcome of a later request to the same app:
\* a read repeated later in the sequence gets the same response, the user
\* a successful POST /users returned is not found afterwards, and after a
\* successful DELETE or PUT of a user GET /users/{id} still returns that
\* user unchanged.
C10_NoEffect ==
    \A i \in Handled : \A j \in Handled :
        i < j =>
            /\ (IsRead(outbox[j].req) /\ outbox[i].req = outbox[j].req)
                   => outbox[j].resp = outbox[i].resp
            /\ \A id \in {1700000000} :
                   (Wrote(i, {"create_user"}, id) /\ ReadsUser(j, id))
                       => outbox[j].resp.status = 404
            /\ \A id \in {2, 5} :
                   (Wrote(i, {"update_user", "delete_user"}, id) /\ ReadsUser(j, id))
                       => /\ outbox[j].resp.status = 200
                          /\ outbox[j].resp.id = id
                          /\ outbox[j].resp.username # <<"B", "o", "b", "_", "1">>

\* Tornado has answered GET /users/5, then deleted user 5, then answered
\* GET /users/5 again.
C10_Witness ==
    /\ Len(outbox) >= 3
    /\ outbox[1].req.app = "tornado"
    /\ ReadsUser(1, 5)
    /\ Wrote(2, {"delete_user"}, 5)
    /\ ReadsUser(3, 5)
    /\ outbox[3].resp.status = 200

\* Up to MaxRequests requests to one app, handled in order.
InitFrame ==
    /\ inbox \in FrameSequences
    /\ outbox = <<>>
    /\ WsIdle("tornado")
    /\ PoolIdle

NextFrame ==
    \/ FlaskGetUsers
    \/ FlaskSearch
    \/ FlaskApiUsers
    \/ FastapiGetUser
    \/ FastapiCreateUser
    \/ FastapiUpdateUser
    \/ FastapiDeleteUser
    \/ FastapiSearch
    \/ StarletteUsersList
    \/ StarletteUserDetail
    \/ StarletteCreateUser
    \/ TornadoUsersGet
    \/ TornadoUserDetail
    \/ TornadoUsersPost
    \/ TornadoUserPut
    \/ TornadoUserDelete
    \/ TornadoSearch

SpecFrame == InitFrame /\ [][NextFrame]_vars

\* --------------------------------------------------------- update and delete

\* The user the app's lookup gives the header of a request: <<>> or <<user>>.
Requester(r) ==
    IF r.app = "fastapi"
    THEN IF fastapi_get_current_user(r.auth, 401).ok
         THEN <<fastapi_get_current_user(r.auth, 401).user>> ELSE <<>>
    ELSE tornado_get_current_user(r.auth)

\* The handled PUT /users/{id} requests.
Updates == {i \in Handled : outbox[i].req.route = "update_user"
                             /\ AtProtected(outbox[i].req)}

\* The request is for another user than the requester, who is no admin.
UpdatesOther(r) ==
    /\ Requester(r) # <<>>
    /\ ~Requester(r)[1].is_admin
    /\ PyInt(r.path_id) # [ok |-> TRUE, val |-> Requester(r)[1].id]

UpdateInvalid(r) ==
    \/ ~PyInt(r.path_id).ok
    \/ PyInt(r.path_id).val <= 0
    \/ r.body.data.username # Absent /\ ~UsernameOk(r.body.data.username[1])
    \/ r.body.data.email # Absent /\ ~EmailOk(r.body.data.email[1])

C13_DeleteAdminOnly ==
    \A i \in Handled :
        LET e == outbox[i]
        IN  e.req.route = "delete_user"
                => /\ ("body" \in DOMAIN e.resp \/ e.resp.status \in 200..299)
                          => BearerToken(e.req.auth) = Some(ADMIN_TOKEN)
                   /\ (AtProtected(e.req) /\ BearerToken(e.req.auth) # Some(ADMIN_TOKEN))
                          => e.resp.status \in {401, 403}

\* Tornado has refused valid-token the deletion of an existing user.
C13_Witness ==
    \E i \in Handled :
        /\ outbox[i].req.app = "tornado"
        /\ outbox[i].req.route = "delete_user"
        /\ outbox[i].req.path_id = <<"1">>
        /\ BearerToken(outbox[i].req.auth) = Some(VALID_TOKEN)
        /\ outbox[i].resp.status = 403

\* ------------------------------------------------------ parameter claims

\* A page or limit parameter that is present and not an integer.
NotAnInteger(opt) == opt # Absent /\ ~PyInt(opt[1]).ok

\* C14: in the lists and searches of Flask, Starlette and Tornado, a page or
\* limit that is not an integer is answered 400 by the handler; it is
\* neither accepted nor left to become a 500.
C14_NonInteger400 ==
    \A i \in Handled :
        LET e == outbox[i]
        IN  (/\ e.req.route \in {"users", "search"}
             /\ e.req.app \in {"flask", "starlette", "tornado"}
             /\ NotAnInteger(e.req.args.page) \/ NotAnInteger(e.req.args.limit))
                => e.resp.status = 400

\* C17: in Tornado's search, for page >= 1 and limit >= 1, no result has an
\* id above the total_results of the same response, and a page that lies
\* beyond total_results is empty.
C17_TornadoSearchBound ==
    \A i \in Handled :
        LET e == outbox[i]
        IN  (/\ e.req.app = "tornado"
             /\ e.req.route = "search"
             /\ e.resp.status = 200
             /\ e.resp.page >= 1
             /\ e.resp.limit >= 1)
                => /\ \A k \in DOMAIN e.resp.results :
                          e.resp.results[k].id <= e.resp.total
                   /\ (e.resp.page - 1) * e.resp.limit >= e.resp.total
                          => e.resp.results = <<>>

\* The handled list requests of Starlette and Tornado whose page and limit
\* are integers (an absent page is 1, an absent limit 10).
Lists == {i \in Handled : /\ outbox[i].req.route = "users"
                           /\ outbox[i].req.app \in {"starlette", "tornado"}
                           /\ IntArg(outbox[i].req.args.page, 1).ok
                           /\ IntArg(outbox[i].req.args.limit, 10).ok}

\* C19: the Starlette and Tornado lists answer 400 without user data when
\* page < 1 or limit < 1 or limit > 100, and 200 for every page >= 1 with
\* 1 <= limit <= 100, the values page = 1, limit = 1, limit = 100 included.
C19_ListValidation ==
    \A i \in Lists :
        LET e == outbox[i]
            page == IntArg(e.req.args.page, 1).val
            limit == IntArg(e.req.args.limit, 10).val
        IN  IF page < 1 \/ limit < 1 \/ limit > 100
            THEN e.resp.status = 400 /\ "users" \notin DOMAIN e.resp
            ELSE e.resp.status = 200 /\ "users" \in DOMAIN e.resp

\* Tornado has accepted page = 1 with limit = 100.
C19_Witness ==
    \E i \in Lists :
        /\ outbox[i].req.app = "tornado"
        /\ outbox[i].req.args.page = Some(<<"1">>)
        /\ outbox[i].req.args.limit = Some(<<"1", "0", "0">>)
        /\ outbox[i].resp.status = 200
        /\ Len(outbox[i].resp.users) = 100

\* C20: Tornado's list reports as total the number of users that pass the
\* filters: without a search term, 75 with active_only (no user of an id
\* divisible by 4 is returned, and has_next compares with 75) and 100
\* without active_only.
C20_FilteredTotal ==
    \A i \in Lists :
        LET e == outbox[i]
        IN  (e.req.app = "tornado" /\ e.resp.status = 200 /\ e.resp.search = <<>>)
                => IF e.resp.active_only
                   THEN /\ e.resp.total = 75
                        /\ \A k \in DOMAIN e.resp.users : e.resp.users[k].id % 4 # 0
                        /\ e.resp.has_next <=> (e.resp.page * e.resp.limit < 75)
                   ELSE e.resp.total = 100

\* Tornado has answered the first ten active users, with more to come.
C20_Witness ==
    \E i \in Lists :
        /\ outbox[i].req.app = "tornado"
        /\ outbox[i].resp.status = 200
        /\ outbox[i].resp.search = <<>>
        /\ outbox[i].resp.active_only
        /\ outbox[i].resp.total = 75
        /\ Len(outbox[i].resp.users) = 10
        /\ outbox[i].resp.has_next

\* ------------------------------------------------------- websocket claims

Object(type, content) ==
    [kind |-> "object", type |-> type, content |-> content, sender |-> Absent]

\* The frames a client sends: JSON objects with and without a type, a text
\* that is not JSON, and a JSON value that is not an object.
WsFrames ==
    {Object(t, Absent) : t \in {Absent, Some("ping"), Some("stats"), Some("chat")}}
    \cup {Object(Some("echo"), Some(<<"h", "i">>)),
          Object(Some("broadcast"), Some(<<"h", "i">>)),
          [kind |-> "text", type |-> Absent, content |-> Some(<<"h", "i">>),
           sender |-> Absent],
          [kind |-> "value", type |-> Absent, content |-> Absent, sender |-> Absent]}

\* The step just taken handed a frame to the handler of app.
Handed(app) ==
    /\ last'.n = last.n + 1
    /\ last'.frame.kind # "close"
    /\ sockets[last'.conn].app = app

\* C11: a Tornado broadcast is written once to every connection of the
\* registry other than the sender and never to the sender; a peer whose
\* write fails is dropped from the registry, no error reaches the sender,
\* and every other peer still receives the broadcast.
C11_Broadcast ==
    [][(Handed("tornado") /\ last'.frame.type = Some("broadcast"))
          => LET c == last'.conn
                 msg == [type |-> "broadcast",
                         content |-> Get(last'.frame.content, <<>>),
                         sender |-> "anonymous"]
                 lost == {k \in connections \ {c} : sockets[k].state # "open"}
             IN  /\ sockets'[c] = sockets[c]
                 /\ connections' = connections \ lost
                 /\ \A k \in connections \ ({c} \cup lost) :
                        sockets'[k].sent = Append(sockets[k].sent, msg)
                 /\ \A k \in lost : sockets'[k].sent = sockets[k].sent]_vars

\* The step just taken wrote msg to connection c and nothing else.
WroteOnly(c, msg) ==
    /\ sockets'[c] = [sockets[c] EXCEPT !.sent = Append(@, msg)]
    /\ \A k \in Conns \ {c} : sockets'[k] = sockets[k]

\* The echo of app for the object frame f.
EchoOf(app, f) ==
    IF app = "fastapi" THEN [type |-> "echo", data |-> f]
    ELSE [type |-> "echo_response", original |-> f]

\* C15: each of the three websocket endpoints answers an object of type
\* "ping" with one "pong" to the sender and an object of type "echo" with
\* one echo message to the sender that contains the object (a send that
\* fails because the client has gone is left aside).
C15_PingPong ==
    [][\A app \in {"fastapi", "starlette", "tornado"} :
           (Handed(app) /\ last'.frame.kind = "object"
                /\ sockets'[last'.conn].state = "open")
               => /\ last'.frame.type = Some("ping")
                         => WroteOnly(last'.conn, [type |-> "pong"])
                  /\ last'.frame.type = Some("echo")
                         => WroteOnly(last'.conn, EchoOf(app, last'.frame))]_vars

\* Clients connect to one app, send frames, and go away.
InitWs ==
    /\ \E app \in {"fastapi", "starlette", "tornado"} : WsIdle(app)
    /\ inbox = <<>>
    /\ outbox = <<>>
    /\ PoolIdle

NextWs ==
    \/ \E c \in Conns : FastapiWsOpen(c)
    \/ \E c \in Conns : StarletteWsOpen(c)
    \/ \E c \in Conns : TornadoWsOpen(c)
    \/ \E c \in Conns : \E f \in WsFrames : FastapiWsMessage(c, f)
    \/ \E c \in Conns : \E f \in WsFrames : StarletteWsMessage(c, f)
    \/ \E c \in Conns : \E f \in WsFrames : TornadoWsMessage(c, f)
    \/ \E c \in Conns : WsDrop(c)
    \/ \E c \in Conns : WsOnClose(c)

SpecWs == InitWs /\ [][NextWs]_vars

\* ------------------------------------------------------------ paging client

\* The limits of the paging client.
PagingLimits == {<<"1">>, <<"7">>, <<"1", "0">>, <<"2", "5">>, <<"1", "0", "0">>,
                 <<"1", "0", "1">>}

PageRequest(app, page, limit) ==
    [app |-> app, route |-> "search",
     args |-> [q |-> Some(<<"x">>), category |-> Absent, page |-> Some(PyStr(page)),
               limit |-> Some(limit)]]

\* The client asks for the page after the last one it was given, as long as
\* that response says has_next.
ClientNextPage ==
    /\ inbox = <<>>
    /\ outbox # <<>>
    /\ outbox[Len(outbox)].resp.status = 200
    /\ outbox[Len(outbox)].resp.has_next
    /\ inbox' = <<PageRequest(outbox[1].req.app, Len(outbox) + 1,
                              outbox[1].req.args.limit[1])>>
    /\ UNCHANGED <<outbox, wsvars, poolvars>>

\* The client starts with page 1 of a search of Flask, FastAPI or Starlette.
InitPaging ==
    /\ inbox \in {<<PageRequest(app, 1, limit)>> :
                      app \in {"flask", "fastapi", "starlette"}, limit \in PagingLimits}
    /\ outbox = <<>>
    /\ WsIdle("tornado")
    /\ PoolIdle

NextPaging ==
    \/ FlaskSearch
    \/ FastapiSearch
    \/ StarletteSearch
    \/ ClientNextPage

\* The server answers every request and the client keeps asking.
SpecPaging == InitPaging /\ [][NextPaging]_vars /\ WF_vars(NextPaging)

\* The result ids of the first n responses, in the order received.
RECURSIVE ReceivedIds(_)
ReceivedIds(n) ==
    IF n = 0 THEN <<>>
    ELSE ReceivedIds(n - 1)
             \o [k \in DOMAIN outbox[n].resp.results |-> outbox[n].resp.results[k].id]

\* ceil(total / limit) of the first response.
PagesNeeded ==
    (outbox[1].resp.total + outbox[1].resp.limit - 1) \div outbox[1].resp.limit

\* The handler has accepted the client's limit.
PagingAccepted == outbox # <<>> /\ outbox[1].resp.status = 200

\* The client has every result and no reason to ask again.
PagingDone ==
    /\ inbox = <<>>
    /\ outbox # <<>>
    /\ PagingAccepted
          => /\ ~outbox[Len(outbox)].resp.has_next
             /\ Len(outbox) = PagesNeeded
             /\ ReceivedIds(Len(outbox)) = [k \in 1..outbox[1].resp.total |-> k]

\* C18: a client that pages through a search of Flask, FastAPI or Starlette
\* with a fixed accepted limit, asking for the next page while has_next is
\* true, receives the ids 1..total once each in increasing order and stops
\* after ceil(total / limit) pages, the last one with has_next false.
C18_Paging ==
    /\ [](PagingAccepted
             => /\ ReceivedIds(Len(outbox)) = [k \in 1..Len(ReceivedIds(Len(outbox))) |-> k]
                /\ Len(outbox) <= PagesNeeded
                /\ \A n \in 1..(Len(outbox) - 1) : outbox[n].resp.has_next)
    /\ <>[]PagingDone

\* The client has reached the last of at least five pages.
C18_Witness ==
    /\ PagingAccepted
    /\ Len(outbox) >= 5
    /\ PagingDone

\* ------------------------------------------------------- thread pool claims

InitPool ==
    /\ inbox = <<>>
    /\ outbox = <<>>
    /\ WsIdle("tornado")
    /\ PoolIdle

NextPool ==
    \/ \E r \in Reqs : LoopStart(r)
    \/ WorkerTake
    \/ \E r \in Reqs : WorkerFinish(r)
    \/ \E r \in Reqs : LoopResume(r)

\* The event loop and the worker threads keep running.
SpecPool == InitPool /\ [][NextPool]_vars /\ WF_vars(NextPool)

\* Request r is suspended at an await of a blocking operation.
Suspended(r) == work[r].at \in {"queued", "running"}

\* C16: Tornado's blocking work runs on the four workers of the executor
\* and never on the event loop: at most 4 operations execute at a time,
\* while a request is suspended the event loop can start every request
\* that has arrived and resume every request whose operation has returned,
\* and every request is eventually answered.
C16_ThreadPool ==
    /\ [](Cardinality(Running) <= 4)
    /\ [](\A r \in Reqs :
             Suspended(r)
                 => \A s \in Reqs :
                        /\ (work[s].at = "none" /\ \A t \in 1..(s - 1) : work[t].at # "none")
                               => ENABLED LoopStart(s)
                        /\ work[s].at = "ready" => ENABLED LoopResume(s))
    /\ \A r \in Reqs : <>(work[r].at = "done")

\* Four operations are executing in the worker threads and the operation
\* of the request that arrived last waits in the queue for a free worker.
C16_Witness ==
    /\ Cardinality(Running) = 4
    /\ queue # <<>>
    /\ \E r \in Running : \E s \in Reqs :
           r < s /\ work[s].at = "queued"

\* ------------------------------------------------------ identifier claims

\* The handled GETs of Flask /post/{id}, Starlette /api/v1/users/{id} and
\* Tornado /users/{id} whose identifier is a number.
SignChecked ==
    {i \in Handled :
        /\ \/ outbox[i].req.app = "flask" /\ outbox[i].req.route = "post"
           \/ outbox[i].req.app \in {"starlette", "tornado"}
                  /\ outbox[i].req.route = "user_detail"
        /\ PyInt(outbox[i].req.path_id).ok}

\* C21: Flask /post/{id}, Starlette /api/v1/users/{id} and Tornado
\* /users/{id} answer an identifier that is zero or negative with 400,
\* never with 404 or 200.
C21_NonPositive400 ==
    \A i \in SignChecked :
        PyInt(outbox[i].req.path_id).val <= 0 => outbox[i].resp.status = 400

\* ---------------------------------------------------------- upload claims

\* The sum of a sequence of sizes.
RECURSIVE SumOf(_)
SumOf(sizes) == IF sizes = <<>> THEN 0 ELSE Head(sizes) + SumOf(Tail(sizes))

\* C22: Starlette's upload handler answers 201 exactly to an authenticated
\* form with at least one file and no file above 10*1024*1024 bytes; it
\* answers 401 without authentication, 400 to a form without a file and
\* 413, listing no file, to a form in which a file exceeds the cap; the
\* total_size of a 201 is the sum of the sizes of the listed files.
C22_StarletteUpload ==
    \A i \in Handled :
        LET e == outbox[i]
            sizes == FileSizesOf(e.req.form)
            authenticated == Identity("starlette", e.req.auth) # Absent
            oversized == \E k \in DOMAIN sizes : sizes[k] > 10 * 1024 * 1024
        IN  (e.req.app = "starlette" /\ e.req.route = "upload")
                => /\ (e.resp.status = 201)
                          <=> (authenticated /\ Len(sizes) >= 1 /\ ~oversized)
                   /\ ~authenticated => e.resp.status = 401
                   /\ (authenticated /\ Len(sizes) = 0) => e.resp.status = 400
                   /\ (authenticated /\ oversized)
                          => e.resp.status = 413 /\ "files" \notin DOMAIN e.resp
                   /\ (e.resp.status = 201)
                          => e.resp.total_size
                                 = SumOf([k \in DOMAIN e.resp.files |-> e.resp.files[k].size])

\* -------------------------------------------------------- creation claims

\* The handled POSTs of Flask /api/users, Starlette /api/v1/users and
\* Tornado /users.
Creations ==
    {i \in Handled :
        \/ outbox[i].req.app = "flask" /\ outbox[i].req.route = "api_users"
               /\ outbox[i].req.method = "POST"
        \/ outbox[i].req.app \in {"starlette", "tornado"}
               /\ outbox[i].req.route = "create_user"}

\* The body is a JSON object with the fields the app requires.
Creatable(app, body) ==
    LET d == body.data
    IN  /\ body.json
        /\ JsonValue(body) = "object"
        /\ IF app = "flask" THEN d.username \notin {Absent, Some(<<>>)}
           ELSE /\ d.username # Absent
                /\ d.email # Absent
                /\ app = "tornado"
                       => /\ "username" \notin Numbers(body)
                          /\ Len(d.username[1]) >= 3
                          /\ "email" \notin Numbers(body)
                          /\ Contains(<<"@">>, d.email[1])

\* C23: the user-creation handlers of Flask, Starlette and Tornado answer 201
\* to a JSON body with the required fields (Flask: a non-empty username;
\* Starlette: username and email; Tornado: both, a username of at least 3
\* characters and an email with an '@') and 400 to every other body;
\* Starlette lists exactly the absent fields as missing.
C23_Create400 ==
    \A i \in Creations :
        LET e == outbox[i]
        IN  /\ e.resp.status = IF Creatable(e.req.app, e.req.body) THEN 201 ELSE 400
            /\ (e.req.app = "starlette" /\ "missing" \in DOMAIN e.resp)
                   => e.resp.missing = MissingFields(e.req.body.data)

\* --------------------------------------------------------- registry claims

\* The connections of Tornado's /ws.
TornadoConns == {c \in Conns : sockets[c].app = "tornado"}

\* The step just taken wrote a message of one of the types to connection c.
Replied(c, types) ==
    /\ Len(sockets'[c].sent) = Len(sockets[c].sent) + 1
    /\ sockets'[c].sent[Len(sockets'[c].sent)].type \in types

\* C24: Tornado's registry holds every connection that is open and only
\* connections that were opened and whose on_close has not run; a
\* connection joins it when it is opened and leaves it only once its stream
\* is closed (through on_close, or dropped after a failed write); a
\* connection that is closed is written nothing further; the
\* active_connections of a welcome or stats reply is the size of the
\* registry, which contains the requester.
C24_Registry ==
    /\ [](\A c \in TornadoConns :
              /\ sockets[c].state = "open" => c \in connections
              /\ c \in connections => sockets[c].state \in {"open", "closing"})
    /\ [][\A c \in TornadoConns :
              /\ c \in connections' \ connections
                     => sockets[c].state = "new" /\ sockets'[c].state = "open"
              /\ c \in connections \ connections' => sockets[c].state = "closing"
              /\ sockets[c].state \in {"closing", "closed"}
                     => sockets'[c].sent = sockets[c].sent
              /\ Replied(c, {"welcome", "stats_response"})
                     => LET msg == sockets'[c].sent[Len(sockets'[c].sent)]
                        IN  /\ msg.active_connections = Cardinality(connections')
                            /\ c \in connections'
                            /\ msg.active_connections >= 1]_vars

\* One connection has been closed and has left the registry, and the
\* broadcast that another connection sent afterwards has reached a third
\* one and not the closed one.
C24_Witness ==
    /\ last.n = 2
    /\ last.frame.type = Some("broadcast")
    /\ \E c \in TornadoConns : \E k \in TornadoConns \ {last.conn} :
           /\ sockets[c].state = "closed"
           /\ c \notin connections
           /\ \A j \in DOMAIN sockets[c].sent : sockets[c].sent[j].type # "broadcast"
           /\ sockets[k].state = "open"
           /\ \E j \in DOMAIN sockets[k].sent : sockets[k].sent[j].type = "broadcast"

\* ------------------------------------------------------- admin_info claims

\* The handled requests GET /users/{id} of Tornado.
TornadoDetails ==
    {i \in Handled : outbox[i].req.app = "tornado" /\ outbox[i].req.route = "user_detail"}

\* The response carries the admin_info block.
HasAdminInfo(resp) == "admin_info" \in DOMAIN resp /\ resp.admin_info # <<>>

\* C25 as stated: the response of Tornado's GET /users/{id} contains
\* admin_info if and only if the request carries admin-token, for every id.
C25_AdminInfoIff ==
    \A i \in TornadoDetails :
        HasAdminInfo(outbox[i].resp)
            <=> BearerToken(outbox[i].req.auth) = Some(ADMIN_TOKEN)

\* C25: the response of Tornado's GET /users/{id} contains admin_info if and
\* only if the request carries admin-token and the id is that of an
\* existing user (the response is a 200); the block is that of the path
\* id; a request with no token, an invalid token or valid-token never
\* receives it.
C25_AdminInfo ==
    \A i \in TornadoDetails :
        LET e == outbox[i]
            id == PyInt(e.req.path_id).val
        IN  /\ HasAdminInfo(e.resp)
                   <=> (BearerToken(e.req.auth) = Some(ADMIN_TOKEN) /\ e.resp.status = 200)
            /\ HasAdminInfo(e.resp)
                   => /\ e.resp.id = id
                      /\ e.resp.admin_info[1].login_attempts = id % 10

\* admin-token has received the admin_info of user 100.
C25_Witness ==
    \E i \in TornadoDetails :
        /\ BearerToken(outbox[i].req.auth) = Some(ADMIN_TOKEN)
        /\ PyInt(outbox[i].req.path_id).val = 100
        /\ HasAdminInfo(outbox[i].resp)

\* -------------------------------------------------------- lifecycle claims

\* Clients connect to FastAPI's or Starlette's /ws, send frames, and go
\* away.
InitEndpoints ==
    /\ \E app \in {"fastapi", "starlette"} : WsIdle(app)
    /\ inbox = <<>>
    /\ outbox = <<>>
    /\ PoolIdle

\* The frames of these clients: a ping, an object without a type, a text
\* that is not JSON and a JSON value that is not an object.
EndpointFrames == {f \in WsFrames : f.type \in {Absent, Some("ping")}}

NextEndpoints ==
    \/ \E c \in Conns : FastapiWsOpen(c)
    \/ \E c \in Conns : StarletteWsOpen(c)
    \/ \E c \in Conns : \E f \in EndpointFrames : FastapiWsMessage(c, f)
    \/ \E c \in Conns : \E f \in EndpointFrames : StarletteWsMessage(c, f)
    \/ \E c \in Conns : WsDrop(c)
    \/ \E c \in Conns : WsOnClose(c)

\* A handler whose receive or send has raised runs on to its end.
SpecEndpoints ==
    InitEndpoints /\ [][NextEndpoints]_vars /\ \A c \in Conns : WF_vars(WsOnClose(c))

\* The connections of the websocket endpoints of FastAPI and Starlette.
EndpointConns == {c \in Conns : sockets[c].app \in {"fastapi", "starlette"}}

TextEchoType(app) ==
    IF app = "fastapi" THEN "echo"
    ELSE IF app = "starlette" THEN "text_echo" ELSE "echo_response"

\* C27: each of the three websocket handlers answers a text frame that is
\* not JSON with exactly one message to the sender, an echo (type echo in
\* FastAPI, text_echo in Starlette, echo_response in Tornado); never with
\* an unknown-command reply and never with nothing.  A send that fails
\* because the client has gone is left aside.
C27_TextEcho ==
    [][\A app \in {"fastapi", "starlette", "tornado"} :
           (Handed(app) /\ last'.frame.kind = "text"
                /\ sockets'[last'.conn].state = "open")
               => LET c == last'.conn
                  IN  /\ Len(sockets'[c].sent) = Len(sockets[c].sent) + 1
                      /\ sockets'[c].sent[Len(sockets'[c].sent)].type = TextEchoType(app)
                      /\ \A k \in Conns \ {c} : sockets'[k] = sockets[k]]_vars

\* ----------------------------------------------------- list and detail claims

\* The answer of the app's GET /users/{id} to the id.
DetailOf(app, id) ==
    LET r == [app |-> app, route |-> "user_detail", path_id |-> PyStr(id),
              auth |-> Absent]
    IN  IF app = "fastapi" THEN fastapi_get_user(r)
        ELSE IF app = "starlette" THEN starlette_user_detail(r)
        ELSE tornado_user_detail_get(r)

\* The handled requests GET /users of FastAPI, Starlette and Tornado that
\* were answered with a list.
Listings ==
    {i \in Handled :
        /\ outbox[i].req.app \in {"fastapi", "starlette", "tornado"}
        /\ outbox[i].req.route = "users"
        /\ outbox[i].resp.status = 200}

\* C28: every user of a GET /users response of FastAPI, Starlette or
\* Tornado is answered with 200, the same id and the same username by
\* GET /users/{id} of the same app.
C28_ListDetail ==
    \A i \in Listings :
        \A k \in DOMAIN outbox[i].resp.users :
            LET u == outbox[i].resp.users[k]
                d == DetailOf(outbox[i].req.app, u.id)
            IN  /\ d.status = 200
                /\ d.id = u.id
                /\ d.username = u.username

\* ------------------------------------------------------------ update claims

\* The user record of a successful PUT /users/{id}.
Updated(e) ==
    IF e.req.app = "fastapi"
    THEN [id |-> e.resp.id, username |-> e.resp.username]
    ELSE [id |-> e.resp.user.id, username |-> e.resp.user.username]

\* The users FastAPI knows by their tokens.
FastapiUsers ==
    {fastapi_get_current_user(Some(BEARER \o t), 401).user :
        t \in {VALID_TOKEN, ADMIN_TOKEN, USER_TOKEN}}

\* The username of the app's user with the id: <<>> when there is none.
StoredUsername(app, id) ==
    IF app = "fastapi"
    THEN IF \E u \in FastapiUsers : u.id = id
         THEN <<(CHOOSE u \in FastapiUsers : u.id = id).username>> ELSE <<>>
    ELSE IF DetailOf(app, id).status = 200
         THEN <<DetailOf(app, id).username>> ELSE <<>>

\* C29: a successful PUT /users/{id} of FastAPI or Tornado returns a user
\* whose id is the path id and whose username, when the body does not name
\* it, is that of the user with that id; for every permitted requester,
\* an admin updating another user included.
C29_UpdateReturnsUser ==
    \A i \in Updates :
        LET e == outbox[i]
            id == PyInt(e.req.path_id).val
        IN  e.resp.status = 200
                => IF Updated(e).id # id THEN FALSE
                   ELSE (e.req.body.data.username = Absent
                             /\ StoredUsername(e.req.app, id) # <<>>)
                            => Updated(e).username = StoredUsername(e.req.app, id)[1]

\* ------------------------------------------------- Tornado control paths

\* BaseHandler.write_error_json
write_error_json(status_code) == [ev |-> "write_error_json", status |-> status_code]

\* BaseHandler.write_json: the envelope's status is "success" below 400.
write_json(status_code) ==
    [ev |-> "write_json", status |-> status_code,
     envelope |-> IF status_code < 400 THEN "success" ELSE "error"]

\* An awaited @run_on_executor method.
BLOCKING == [ev |-> "blocking"]

\* An exception leaves the handler method; Tornado's own error page answers.
RAISE == [ev |-> "raise"]

\* authenticated_async around the path of the method
authenticated_async_path(auth, method) ==
    IF tornado_get_current_user(auth) = <<>> THEN <<write_error_json(401)>>
    ELSE method

\* require_admin around the path of the method
require_admin_path(auth, method) ==
    LET user == tornado_get_current_user(auth)
    IN  IF user = <<>> \/ ~user[1].is_admin THEN <<write_error_json(403)>>
        ELSE method

\* MainHandler.get
main_get_path(r) == <<BLOCKING, write_json(200)>>

\* UsersHandler.get
users_get_path(r) ==
    LET p == IntArg(r.args.page, 1)
        l == IntArg(r.args.limit, 10)
    IN  IF ~p.ok \/ ~l.ok THEN <<write_error_json(400)>>
        ELSE IF p.val < 1 THEN <<write_error_json(400)>>
        ELSE IF l.val < 1 \/ l.val > MAX_LIMIT THEN <<write_error_json(400)>>
        ELSE <<BLOCKING, write_json(200)>>

\* UsersHandler.post
users_post_path(r) ==
    LET d == r.body.data
    IN  IF ~r.body.json THEN <<write_error_json(400)>>
        ELSE IF JsonValue(r.body) \in NO_CONTAINER THEN <<RAISE>>
        ELSE IF MissingFields(d) # <<>> THEN <<write_error_json(400)>>
        ELSE IF "username" \in Numbers(r.body) THEN <<RAISE>>
        ELSE IF Len(d.username[1]) < 3 THEN <<write_error_json(400)>>
        ELSE IF "email" \in Numbers(r.body) THEN <<RAISE>>
        ELSE IF ~Contains(<<"@">>, d.email[1]) THEN <<write_error_json(400)>>
        ELSE <<BLOCKING, write_json(201)>>

\* UserDetailHandler.get
user_detail_get_path(r) ==
    LET user_id == PyInt(r.path_id).val
        current_user == tornado_get_current_user(r.auth)
    IN  IF user_id <= 0 THEN <<write_error_json(400)>>
        ELSE IF get_user_details(user_id) = <<>> THEN <<BLOCKING, write_error_json(404)>>
        ELSE IF current_user # <<>> /\ current_user[1].is_admin
        THEN <<BLOCKING, BLOCKING, write_json(200)>>
        ELSE <<BLOCKING, write_json(200)>>

\* UserDetailHandler.put; data.get raises in update_user_in_database when
\* the body is JSON and not an object.
user_detail_put_path(r) ==
    LET user_id == PyInt(r.path_id).val
        current_user == tornado_get_current_user(r.auth)[1]
    IN  authenticated_async_path(r.auth,
            IF current_user.id # user_id /\ ~current_user.is_admin
            THEN <<write_error_json(403)>>
            ELSE IF ~r.body.json THEN <<write_error_json(400)>>
            ELSE IF user_id > TORNADO_USERS THEN <<BLOCKING, write_error_json(404)>>
            ELSE IF JsonValue(r.body) # "object" THEN <<BLOCKING, RAISE>>
            ELSE <<BLOCKING, write_json(200)>>)

\* UserDetailHandler.delete
user_detail_delete_path(r) ==
    require_admin_path(r.auth,
        IF ~delete_user_from_database(PyInt(r.path_id).val)
        THEN <<BLOCKING, write_error_json(404)>>
        ELSE <<BLOCKING, write_json(200)>>)

\* SearchHandler.get
search_get_path(r) ==
    IF Get(r.args.q, <<>>) = <<>> THEN <<write_error_json(400)>>
    ELSE IF ~IntArg(r.args.page, 1).ok \/ ~IntArg(r.args.limit, TORNADO_SEARCH_LIMIT).ok
    THEN <<RAISE>>
    ELSE <<BLOCKING, write_json(200)>>

\* ProtectedHandler.get
protected_get_path(r) == authenticated_async_path(r.auth, <<write_json(200)>>)

\* AdminHandler.get
admin_get_path(r) == require_admin_path(r.auth, <<write_json(200)>>)

\* Each method runs along its path and the request is finished.
TornadoMainPath ==
    /\ Routed("tornado", "main")
    /\ Respond(Head(inbox), [path |-> main_get_path(Head(inbox))])

TornadoUsersGetPath ==
    /\ Routed("tornado", "users")
    /\ Respond(Head(inbox), [path |-> users_get_path(Head(inbox))])

TornadoUsersPostPath ==
    /\ Routed("tornado", "create_user")
    /\ Respond(Head(inbox), [path |-> users_post_path(Head(inbox))])

TornadoUserDetailPath ==
    /\ Routed("tornado", "user_detail")
    /\ Respond(Head(inbox), [path |-> user_detail_get_path(Head(inbox))])

TornadoUserPutPath ==
    /\ Routed("tornado", "update_user")
    /\ Respond(Head(inbox), [path |-> user_detail_put_path(Head(inbox))])

TornadoUserDeletePath ==
    /\ Routed("tornado", "delete_user")
    /\ Respond(Head(inbox), [path |-> user_detail_delete_path(Head(inbox))])

TornadoSearchPath ==
    /\ Routed("tornado", "search")
    /\ Respond(Head(inbox), [path |-> search_get_path(Head(inbox))])

TornadoProtectedPath ==
    /\ Routed("tornado", "protected")
    /\ Respond(Head(inbox), [path |-> protected_get_path(Head(inbox))])

TornadoAdminPath ==
    /\ Routed("tornado", "admin")
    /\ Respond(Head(inbox), [path |-> admin_get_path(Head(inbox))])

\* The requests that reach a method of a Tornado handler: those of Requests
\* whose path matches a route, GET / and PUT /users/{id} with a JSON body
\* that is not an object of strings.
TornadoRequests ==
    {r \in Requests : r.app = "tornado"
                      /\ ("path_id" \in DOMAIN r => AllDigits(r.path_id))}
    \cup {[app |-> "tornado", route |-> "main", auth |-> h] : h \in AuthHeaders}
    \cup {[app |-> "tornado", route |-> "update_user", auth |-> h, path_id |-> i,
           body |-> b] :
              h \in {ADMIN}, i \in {<<"5">>, <<"1", "0", "1">>}, b \in OddBodies}

InitTornado ==
    /\ inbox \in {<<r>> : r \in TornadoRequests}
    /\ outbox = <<>>
    /\ WsIdle("tornado")
    /\ PoolIdle

NextTornado ==
    \/ TornadoMainPath
    \/ TornadoUsersGetPath
    \/ TornadoUsersPostPath
    \/ TornadoUserDetailPath
    \/ TornadoUserPutPath
    \/ TornadoUserDeletePath
    \/ TornadoSearchPath
    \/ TornadoProtectedPath
    \/ TornadoAdminPath

SpecTornado == InitTornado /\ [][NextTornado]_vars

\* The events of a path that write a body.
Writes(path) ==
    {k \in DOMAIN path : path[k].ev \in {"write_json", "write_error_json"}}

\* C30: every method of a Tornado handler writes exactly one JSON body on
\* every control path; after an error body nothing blocking is run and no
\* second body is written; the envelope of write_json says "success"
\* exactly when the status code is below 400.
C30_OneBody ==
    \A i \in Handled :
        LET path == outbox[i].resp.path
        IN  /\ Cardinality(Writes(path)) = 1
            /\ \A k \in DOMAIN path :
                   path[k].ev = "write_error_json" => k = Len(path)
            /\ \A k \in DOMAIN path :
                   path[k].ev = "write_json"
                       => (path[k].envelope = "success" <=> path[k].status < 400)

====
